---- MODULE Spec2Model ----
(***************************************************************************)
(* Model of the X-activity ingestion of the leaderboard:                   *)
(*   - the ingestion step fetchAndStoreXActivitiesStep with its helpers    *)
(*     storeXActivity, syncSocialAccount, determineActivityType, ...       *)
(*   - the X API client's searchTweets                                     *)
(*   - the GitHub profile scanner scanProfilesForXAccounts with            *)
(*     scanProfileForXAccount and fetchProfileReadme                       *)
(* The database tables users, socialAccounts and xActivities are shared    *)
(* state; every await of the step is a point where another run of the      *)
(* step may interleave.                                                    *)
(***************************************************************************)
EXTENDS Integers, Sequences, FiniteSets, TLC

(***************************************************************************)
(* Bounds of the model.                                                    *)
(***************************************************************************)
\* number of runs of the ingestion step that are started in one behaviour
MaxRuns == 2
\* pages the upstream search holds for the query at most
MaxFeedPages == 6
\* usernames one scan is called with at most
MaxScan == 3
\* how far below 0 the loop variable of a scan is followed
MaxSpin == 2

(***************************************************************************)
(* Program constants.                                                      *)
(***************************************************************************)
\* while (cursor && pageCount < 5)
MaxPages == 5
\* pRetry(..., { retries: 3, ... })
Retries == 3

(***************************************************************************)
(* Value universes the inputs are drawn from.                              *)
(***************************************************************************)
\* rows of the users table (GitHub usernames)
Usernames == {"u1", "u2"}
\* the slots in which a run of the step executes; two slots = two
\* overlapping runs of the pipeline against the same database
Slots == {"A", "B"}

\* JS undefined for a string-valued expression
Undefined == "undefined"
\* no row found by findFirst
NoRow == 0

\* an X-linking claim found and verified in a profile README
Claim(xid, name) == [xUserId |-> xid, xUsername |-> name]
Claims == {Claim("x1", "h1"), Claim("x2", "h2")}
\* outcome of scanProfileForXAccount for one username: a verified claim,
\* null (no README, no claim, invalid signature, swallowed fetch error) or
\* a rejected promise
NullOutcome == [null |-> TRUE]
Rejected == [rejected |-> TRUE]
ScanOutcomes == Claims \cup {NullOutcome, Rejected}

\* NormalizedXPost.  variant 1 and variant 2 differ in every field that
\* storeXActivity writes, so a re-fetched post may differ from the stored one
MkPost(id, author, v) ==
  [ id            |-> id,
    text          |-> IF v = 1 THEN "gm" ELSE "gn",
    authorId      |-> author,
    createdAt     |-> v,
    likesCount    |-> v,
    repostsCount  |-> 2 * v,
    repliesCount  |-> v - 1,
    quotesCount   |-> 3 - v,
    viewsCount    |-> 10 * v,
    isRetweet     |-> FALSE,
    isQuote       |-> (v = 1),
    isReply       |-> (v = 2),
    hashtags      |-> IF v = 1 THEN <<>> ELSE <<"defi">>,
    mentions      |-> IF v = 1 THEN << [username |-> "sendomarket", id |-> "x0"] >>
                               ELSE <<>>,
    mediaCount    |-> v - 1 ]

PostUniverse ==
  { MkPost("p1", "x1", 1), MkPost("p1", "x2", 2), MkPost("p2", "x1", 2) }

\* the tweets of one search response (already mapped through normalizeXPost)
Pages == {<<>>} \cup { <<p>> : p \in PostUniverse }
              \cup { <<p, q>> : p \in PostUniverse, q \in PostUniverse }

\* context.dateRange: absent, or {startDate, endDate}
NoRange == <<>>
DateRanges == {NoRange, <<2, 2>>}

\* db.query.users.findMany(...).map(u => u.username): the rows in table order
UsernameOrder == <<"u1", "u2">>
FindUsernames(table) == SelectSeq(UsernameOrder, LAMBDA u : u \in table)

(***************************************************************************)
(* Pure helpers of the ingestion step.                                     *)
(***************************************************************************)
\* variant: the repost flag is looked at first
determineActivityTypeRepostFirst(post) ==
  IF post.isRetweet THEN "repost"
  ELSE IF post.isReply THEN "reply"
  ELSE IF post.isQuote THEN "quote"
  ELSE "post"

determineActivityType(post) ==
  IF post.isReply THEN "reply"
  ELSE IF post.isRetweet THEN "repost"
  ELSE IF post.isQuote THEN "quote"
  ELSE "post"

mentionsSendoMarket(post) ==
  \E i \in DOMAIN post.mentions : post.mentions[i].username = "sendomarket"

isAboutSendo(post) ==
  mentionsSendoMarket(post) \/ \E i \in DOMAIN post.hashtags : post.hashtags[i] = "sendo"

\* JSON.stringify of an array of strings
RECURSIVE JoinQuoted(_)
JoinQuoted(s) ==
  IF Len(s) = 0 THEN ""
  ELSE IF Len(s) = 1 THEN "\"" \o s[1] \o "\""
  ELSE "\"" \o s[1] \o "\"," \o JoinQuoted(Tail(s))

JsonStringify(s) == "[" \o JoinQuoted(s) \o "]"

EngagementCount(post) ==
  post.likesCount + post.repostsCount + post.repliesCount + post.quotesCount

\* the row of .values({...}) in storeXActivity
NewActivityRow(post, githubUsername, t) ==
  [ id                  |-> post.id,
    username            |-> githubUsername,
    activityType        |-> determineActivityType(post),
    content             |-> post.text,
    isAboutSendo        |-> isAboutSendo(post),
    mentionsSendoMarket |-> mentionsSendoMarket(post),
    hashtagsUsed        |-> JsonStringify(post.hashtags),
    mediaCount          |-> post.mediaCount,
    engagementCount     |-> EngagementCount(post),
    likesCount          |-> post.likesCount,
    repostsCount        |-> post.repostsCount,
    repliesCount        |-> post.repliesCount,
    viewsCount          |-> post.viewsCount,
    createdAt           |-> post.createdAt,
    lastUpdated         |-> t ]

\* variant: the conflict branch rewrites the whole row from the re-fetched post
ConflictUpdateWholeRow(row, post, githubUsername, t) ==
  NewActivityRow(post, githubUsername, t)

\* the set({...}) of onConflictDoUpdate in storeXActivity
ConflictUpdate(row, post, githubUsername, t) ==
  [ row EXCEPT !.engagementCount = EngagementCount(post),
               !.likesCount      = post.likesCount,
               !.repostsCount    = post.repostsCount,
               !.repliesCount    = post.repliesCount,
               !.viewsCount      = post.viewsCount,
               !.lastUpdated     = t ]

\* variant: a plain insert, no conflict clause on a table without a key
StoreXActivityPlainInsert(table, post, githubUsername, t) ==
  table \cup { NewActivityRow(post, githubUsername, t) }

\* insert(...).onConflictDoUpdate({target: [xActivities.id], ...}): the
\* resulting table
StoreXActivity(table, post, githubUsername, t) ==
  IF \E row \in table : row.id = post.id
  THEN { IF row.id = post.id THEN ConflictUpdate(row, post, githubUsername, t) ELSE row :
           row \in table }
  ELSE table \cup { NewActivityRow(post, githubUsername, t) }

\* variant: a key that is already in the map keeps its first value
MapSetIfAbsent(m, k, v) ==
  [ x \in DOMAIN m \cup {k} |-> IF x \in DOMAIN m THEN m[x] ELSE v ]

\* Map.prototype.set(k, v): adds the key or overwrites its value
MapSet(m, k, v) == [ x \in DOMAIN m \cup {k} |-> IF x = k THEN v ELSE m[x] ]

\* buildXIdToGitHubMapping: for (const account of linkedAccounts)
\*   mapping.set(account.xUserId, account.githubUsername), from an empty Map
RECURSIVE BuildXIdToGitHubMapping(_)
BuildXIdToGitHubMapping(linked) ==
  IF linked = <<>> THEN << >>
  ELSE LET n == Len(linked)
       IN  MapSet(BuildXIdToGitHubMapping(SubSeq(linked, 1, n - 1)),
                  linked[n].xUserId, linked[n].githubUsername)

\* variant: an author missing from the map falls back to the first user
MapGetWithFallback(m, k) == IF k \in DOMAIN m THEN m[k] ELSE UsernameOrder[1]

\* xIdToGitHub.get(post.authorId)
MapGet(m, k) == IF k \in DOMAIN m THEN m[k] ELSE Undefined

\* variant: a post on a bound of the window is outside
OutsideDateRangeExclusive(post, range) ==
  /\ range # NoRange
  /\ (post.createdAt <= range[1] \/ post.createdAt >= range[2])

\* if (dateRange && dateRange.startDate && dateRange.endDate)
\*   if (postDate < startDate || postDate > endDate) -> skipped
OutsideDateRange(post, range) ==
  /\ range # NoRange
  /\ (post.createdAt < range[1] \/ post.createdAt > range[2])

\* the record scanProfileForXAccount returns for a verified claim
LinkedAccount(username, claim) ==
  [ githubUsername |-> username, xUsername |-> claim.xUsername, xUserId |-> claim.xUserId ]

\* scanProfilesForXAccounts as a function of the settled outcome of every
\* scanProfileForXAccount promise: results are consumed batch after batch in
\* the order of usernames
RECURSIVE ScanProfilesForXAccounts(_, _)
ScanProfilesForXAccounts(usernames, outcome) ==
  IF usernames = <<>>
  THEN [ linkedAccounts |-> <<>>, scannedCount |-> 0, failedCount |-> 0, errors |-> <<>> ]
  ELSE LET n    == Len(usernames)
           rest == ScanProfilesForXAccounts(SubSeq(usernames, 1, n - 1), outcome)
           u    == usernames[n]
           o    == outcome[u]
       IN  [ linkedAccounts |-> IF o \in Claims
                                THEN Append(rest.linkedAccounts, LinkedAccount(u, o))
                                ELSE rest.linkedAccounts,
             scannedCount   |-> rest.scannedCount + 1,
             failedCount    |-> IF o = Rejected THEN rest.failedCount + 1
                                ELSE rest.failedCount,
             errors         |-> IF o = Rejected THEN Append(rest.errors, u)
                                ELSE rest.errors ]

VARIABLES
  users,            \* table users: set of usernames (isBot = 0)
  socialAccounts,   \* table socialAccounts: set of rows
  xActivities,      \* table xActivities: set of rows
  now,              \* the clock read by new Date()
  runsStarted,      \* runs of the step started so far
  pc,               \* per slot: stage of the run
  dateRange,        \* per slot: context.dateRange
  linkedAccounts,   \* per slot: scanResult.linkedAccounts
  syncPc,           \* per slot: position of each syncSocialAccount promise
  existing,         \* per slot: id of the row findFirst returned (0 = none)
  allPosts,         \* per slot: accumulated normalized posts
  cursor,           \* per slot: cursor for the next request
  pageCount,        \* per slot
  requests,         \* per slot: search requests issued in this run
  lastResponse,     \* per slot: the last search response
  idx,              \* per slot: position of the persisting loop in allPosts
  storedCount,      \* per slot
  skippedCount,     \* per slot
  writes,           \* per slot: ids written to xActivities by this run, in order
  result,           \* per slot: value returned / error thrown by the run
  hist              \* history: what the last run that failed while persisting
                    \* started from and worked on (kept by SpecRerun only)

orchVars == << users, socialAccounts, xActivities, now, runsStarted, pc, dateRange,
               linkedAccounts, syncPc, existing, allPosts, cursor, pageCount,
               requests, lastResponse, idx, storedCount, skippedCount, writes,
               result, hist >>

shared == << users, socialAccounts, xActivities >>

\* state of one call of scanProfilesForXAccounts
VARIABLES
  scPc,             \* "idle", "batch" (a batch of promises in flight), "returned"
  scUsernames,      \* argument usernames
  scConcurrency,    \* options.concurrency
  scReadme,         \* per username: the profile README GitHub answered with
  scSecret,         \* a linking secret is configured
  scI,              \* loop variable i
  scBatch,          \* usernames.slice(i, i + concurrency)
  scTasks,          \* per batch member: its scanProfileForXAccount promise
  scLinked,         \* linkedAccounts
  scScanned,        \* scannedCount
  scFailed,         \* failedCount
  scErrors,         \* errors
  scProgress        \* the calls of onProgress, in order

scanVars == << scPc, scUsernames, scConcurrency, scReadme, scSecret, scI, scBatch,
               scTasks, scLinked, scScanned, scFailed, scErrors, scProgress >>

\* the profile README the linking flow reads and rewrites
VARIABLES
  readmeText,       \* the README text, a sequence of tokens
  baseReadme,       \* the text before the first generateUpdatedReadmeWithXInfo
  upserted,         \* the xAccount arguments of the calls so far, in order
  generated         \* what the last call returned (a text) or threw

codecVars == << readmeText, baseReadme, upserted, generated >>

\* one call of calculateXScore
VARIABLES
  xsStored,         \* the post of the last storeXActivity
  xsActivities,     \* argument activities, rows of the activity table
  xsConfig,         \* argument config
  xsResult          \* the returned XScoreResult

scoreVars == << xsStored, xsActivities, xsConfig, xsResult >>

\* one call of XApiClient.makeRequest and one call of normalizeXPost
VARIABLES
  rqPc,             \* "idle", "fetch" (awaiting fetch), "body" (awaiting
                    \* response.json()), "settled"
  rqClock,          \* time since the call, in ticks
  rqTimer,          \* the timer of setTimeout is armed
  rqResponse,       \* the response fetch resolved with
  rqOutcome,        \* the value returned or the error thrown
  nzRaw,            \* argument post
  nzResult          \* the returned NormalizedXPost or the error thrown

clientVars == << rqPc, rqClock, rqTimer, rqResponse, rqOutcome, nzRaw, nzResult >>

\* one visit of the page /auth/x/callback (XCallbackContent)
VARIABLES
  cbPc,             \* "idle", "exchange", "repo", "readme", "commit" (the
                    \* fetch awaited), "done"
  cbStatus,         \* the values passed to setStatus, in order
  cbWriting,        \* isWritingToReadme
  cbAccount,        \* the account of the response of the auth worker
  cbReadme,         \* currentReadme
  cbPuts,           \* the bodies of the PUT requests sent
  cbRedirect        \* the timer of the redirect: "none", "armed", "fired"

callbackVars == << cbPc, cbStatus, cbWriting, cbAccount, cbReadme, cbPuts, cbRedirect >>

vars == << orchVars, scanVars, codecVars, scoreVars, clientVars, callbackVars >>

(***************************************************************************)
(* syncSocialAccount                                                       *)
(***************************************************************************)
\* rows matched by findFirst({where: and(eq(userId, ...), eq(platform, "x"))})
MatchingRows(table, username) ==
  { row \in table : row.userId = username /\ row.platform = "x" }

\* update(socialAccounts).set({platformUsername, lastSyncedAt, updatedAt})
\*   .where(eq(socialAccounts.id, existing.id))
UpdateSocialAccount(table, linkedAccount, existingId) ==
  { IF row.id = existingId
    THEN [ row EXCEPT !.platformUsername = linkedAccount.xUsername ]
    ELSE row : row \in table }

\* insert(socialAccounts).values({...}); id is the table's generated key
InsertSocialAccount(table, linkedAccount) ==
  table \cup { [ id               |-> Cardinality(table) + 1,
                 userId           |-> linkedAccount.githubUsername,
                 platform         |-> "x",
                 platformUserId   |-> linkedAccount.xUserId,
                 platformUsername |-> linkedAccount.xUsername ] }

\* if (existing) update else insert
WriteSocialAccount(table, linkedAccount, existingId) ==
  IF existingId # NoRow
  THEN UpdateSocialAccount(table, linkedAccount, existingId)
  ELSE InsertSocialAccount(table, linkedAccount)

(***************************************************************************)
(* searchTweets and the pagination loop                                    *)
(***************************************************************************)
\* no cursor: undefined (or "", both falsy)
NoCursor == 0

\* the object searchTweets returns in .data
SearchData(tweets, nextCursor, hasNext) ==
  [ tweets |-> tweets, next_cursor |-> nextCursor, has_next_page |-> hasNext ]

\* cursor = response.data.cursor: reading a property the object does not
\* have yields undefined
DataCursor(data) == IF "cursor" \in DOMAIN data THEN data.cursor ELSE NoCursor

\* variant: the loop relies on the break alone, do { ... } while (true)
ContinuePagingUncapped(c, count) == TRUE

\* while (cursor && pageCount < 5)
ContinuePaging(c, count) == c # NoCursor /\ count < MaxPages

(***************************************************************************)
(* Initial state: the tables as earlier pipeline steps left them, no run   *)
(* of the step started.                                                    *)
(***************************************************************************)
\* no call of the scanner under way
ScanIdle ==
  /\ scPc = "idle"
  /\ scUsernames = <<>>
  /\ scConcurrency = 0
  /\ scReadme = <<>>
  /\ scSecret = TRUE
  /\ scI = 0
  /\ scBatch = <<>>
  /\ scTasks = <<>>
  /\ scLinked = <<>>
  /\ scScanned = 0
  /\ scFailed = 0
  /\ scErrors = <<>>
  /\ scProgress = <<>>

\* no README under edit
NoText == [ none |-> TRUE ]
CodecIdle ==
  /\ readmeText = <<>>
  /\ baseReadme = <<>>
  /\ upserted = <<>>
  /\ generated = NoText

\* no call of calculateXScore under way
NoScore == [ pending |-> TRUE ]
ScoreIdle ==
  /\ xsStored = [ none |-> TRUE ]
  /\ xsActivities = <<>>
  /\ xsConfig = [ none |-> TRUE ]
  /\ xsResult = NoScore

\* no call of the client under way
NoResponse == [ none |-> TRUE ]
ClientIdle ==
  /\ rqPc = "idle"
  /\ rqClock = 0
  /\ rqTimer = FALSE
  /\ rqResponse = NoResponse
  /\ rqOutcome = [ pending |-> TRUE ]
  /\ nzRaw = [ none |-> TRUE ]
  /\ nzResult = [ pending |-> TRUE ]

\* the page has not been mounted
CallbackIdle ==
  /\ cbPc = "idle"
  /\ cbStatus = <<>>
  /\ cbWriting = FALSE
  /\ cbAccount = [ none |-> TRUE ]
  /\ cbReadme = <<>>
  /\ cbPuts = <<>>
  /\ cbRedirect = "none"

NoResult == [ pending |-> TRUE ]
NoFailure == [ none |-> TRUE ]

\* the step has not run and the tables hold the users only
StepIdle ==
  /\ users = Usernames
  /\ socialAccounts = {}
  /\ xActivities = {}
  /\ now = 0
  /\ runsStarted = 0
  /\ pc = [ r \in Slots |-> "idle" ]
  /\ dateRange = [ r \in Slots |-> NoRange ]
  /\ linkedAccounts = [ r \in Slots |-> <<>> ]
  /\ syncPc = [ r \in Slots |-> <<>> ]
  /\ existing = [ r \in Slots |-> <<>> ]
  /\ allPosts = [ r \in Slots |-> <<>> ]
  /\ cursor = [ r \in Slots |-> NoCursor ]
  /\ pageCount = [ r \in Slots |-> 0 ]
  /\ requests = [ r \in Slots |-> 0 ]
  /\ lastResponse = [ r \in Slots |-> SearchData(<<>>, NoCursor, FALSE) ]
  /\ idx = [ r \in Slots |-> 1 ]
  /\ storedCount = [ r \in Slots |-> 0 ]
  /\ skippedCount = [ r \in Slots |-> 0 ]
  /\ writes = [ r \in Slots |-> <<>> ]
  /\ result = [ r \in Slots |-> NoResult ]
  /\ hist = [ startStore |-> {}, failure |-> NoFailure ]

Init == StepIdle /\ ScanIdle /\ CodecIdle /\ ScoreIdle /\ ClientIdle /\ CallbackIdle

(***************************************************************************)
(* fetchAndStoreXActivitiesStep, steps 1-2: load the users, scan their     *)
(* profiles; no linked account ends the run with the zero result.          *)
(***************************************************************************)
\* variant: the short-circuit tests the number of scanned profiles
NoScannedProfiles(scanResult) == scanResult.scannedCount = 0

\* if (scanResult.linkedAccounts.length === 0)
NoLinkedAccounts(scanResult) == Len(scanResult.linkedAccounts) = 0

StartRunStep(r, outcomes, ranges) ==
  /\ pc[r] \in {"idle", "done", "failed"}
  /\ runsStarted < MaxRuns
  /\ \E outcome \in [users -> outcomes], range \in ranges :
       LET usernames  == FindUsernames(users)
           scanResult == ScanProfilesForXAccounts(usernames, outcome)
           n          == Len(scanResult.linkedAccounts)
       IN  /\ linkedAccounts' = [ linkedAccounts EXCEPT ![r] = scanResult.linkedAccounts ]
           /\ dateRange' = [ dateRange EXCEPT ![r] = range ]
           /\ syncPc' = [ syncPc EXCEPT ![r] = [ i \in 1..n |-> "lookup" ] ]
           /\ existing' = [ existing EXCEPT ![r] = [ i \in 1..n |-> NoRow ] ]
           /\ IF NoLinkedAccounts(scanResult)
              THEN /\ pc' = [ pc EXCEPT ![r] = "done" ]
                   /\ result' = [ result EXCEPT ![r] =
                                    [ count |-> 0, linkedAccounts |-> 0, posts |-> 0 ] ]
              ELSE \* Promise.all of no promise resolves at once
                   /\ pc' = [ pc EXCEPT ![r] = IF n = 0 THEN "search" ELSE "sync" ]
                   /\ result' = [ result EXCEPT ![r] = NoResult ]
  /\ runsStarted' = runsStarted + 1
  /\ now' = now + 1
  /\ allPosts' = [ allPosts EXCEPT ![r] = <<>> ]
  /\ cursor' = [ cursor EXCEPT ![r] = NoCursor ]
  /\ pageCount' = [ pageCount EXCEPT ![r] = 0 ]
  /\ requests' = [ requests EXCEPT ![r] = 0 ]
  /\ lastResponse' = [ lastResponse EXCEPT ![r] = SearchData(<<>>, NoCursor, FALSE) ]
  /\ idx' = [ idx EXCEPT ![r] = 1 ]
  /\ storedCount' = [ storedCount EXCEPT ![r] = 0 ]
  /\ skippedCount' = [ skippedCount EXCEPT ![r] = 0 ]
  /\ writes' = [ writes EXCEPT ![r] = <<>> ]
  /\ UNCHANGED << shared, scanVars, codecVars, scoreVars, clientVars, callbackVars >>

(***************************************************************************)
(* Step 3: Promise.all(linkedAccounts.map(syncSocialAccount)).  The        *)
(* promises run interleaved; each has two awaits that touch                *)
(* socialAccounts: the findFirst and the update / insert.  The insert into *)
(* users (onConflictDoNothing) precedes the findFirst and is taken with it.*)
(***************************************************************************)
SyncLookup(r, i) ==
  /\ pc[r] = "sync"
  /\ i \in DOMAIN syncPc[r]
  /\ syncPc[r][i] = "lookup"
  /\ users' = users \cup { linkedAccounts[r][i].githubUsername }
  /\ LET found == MatchingRows(socialAccounts, linkedAccounts[r][i].githubUsername)
     IN  \E e \in IF found = {} THEN {NoRow} ELSE { row.id : row \in found } :
           existing' = [ existing EXCEPT ![r][i] = e ]
  /\ syncPc' = [ syncPc EXCEPT ![r][i] = "write" ]
  /\ UNCHANGED << socialAccounts, xActivities, now, runsStarted, pc, dateRange,
                  linkedAccounts, allPosts, cursor, pageCount, requests,
                  lastResponse, idx, storedCount, skippedCount, writes, result, hist, scanVars, codecVars, scoreVars, clientVars, callbackVars >>

SyncWrite(r, i) ==
  /\ pc[r] = "sync"
  /\ i \in DOMAIN syncPc[r]
  /\ syncPc[r][i] = "write"
  /\ socialAccounts' = WriteSocialAccount(socialAccounts, linkedAccounts[r][i], existing[r][i])
  /\ syncPc' = [ syncPc EXCEPT ![r][i] = "done" ]
  /\ pc' = [ pc EXCEPT ![r] =
               IF \A j \in DOMAIN syncPc[r] : j # i => syncPc[r][j] = "done"
               THEN "search" ELSE "sync" ]
  /\ UNCHANGED << users, xActivities, now, runsStarted, dateRange, linkedAccounts,
                  existing, allPosts, cursor, pageCount, requests, lastResponse,
                  idx, storedCount, skippedCount, writes, result, hist, scanVars, codecVars, scoreVars, clientVars, callbackVars >>

(***************************************************************************)
(* Step 5: one iteration of the do-while loop around searchTweets.  The    *)
(* upstream answers with any page; it reports a further page only while    *)
(* it holds more pages (MaxFeedPages at most).                             *)
(***************************************************************************)
SearchPage(r, pages) ==
  /\ pc[r] = "search"
  /\ \E tweets \in pages, hasNext \in BOOLEAN :
       /\ hasNext => requests[r] + 1 < MaxFeedPages
       /\ LET data == SearchData(tweets, IF hasNext THEN requests[r] + 1 ELSE NoCursor,
                                 hasNext)
          IN  /\ lastResponse' = [ lastResponse EXCEPT ![r] = data ]
              /\ IF Len(data.tweets) = 0
                 THEN /\ pc' = [ pc EXCEPT ![r] = "persist" ]
                      /\ UNCHANGED << allPosts, cursor, pageCount >>
                 ELSE /\ allPosts' = [ allPosts EXCEPT ![r] = allPosts[r] \o data.tweets ]
                      /\ cursor' = [ cursor EXCEPT ![r] = DataCursor(data) ]
                      /\ pageCount' = [ pageCount EXCEPT ![r] = pageCount[r] + 1 ]
                      /\ pc' = [ pc EXCEPT ![r] =
                                   IF ContinuePaging(DataCursor(data), pageCount[r] + 1)
                                   THEN "search" ELSE "persist" ]
  /\ requests' = [ requests EXCEPT ![r] = requests[r] + 1 ]
  /\ UNCHANGED << users, socialAccounts, xActivities, now, runsStarted, dateRange,
                  linkedAccounts, syncPc, existing, idx, storedCount, skippedCount,
                  writes, result, hist, scanVars, codecVars, scoreVars, clientVars, callbackVars >>

\* variant: the error of searchTweets is caught inside the loop, which is
\* left for the persisting loop with the pages fetched so far
SearchFailFallsThrough(r) ==
  /\ pc[r] = "search"
  /\ requests' = [ requests EXCEPT ![r] = requests[r] + 1 ]
  /\ pc' = [ pc EXCEPT ![r] = "persist" ]
  /\ result' = [ result EXCEPT ![r] = [ error |-> "searchTweets" ] ]
  /\ UNCHANGED << users, socialAccounts, xActivities, now, runsStarted, dateRange,
                  linkedAccounts, syncPc, existing, allPosts, cursor, pageCount,
                  lastResponse, idx, storedCount, skippedCount, writes, hist, scanVars, codecVars, scoreVars, clientVars, callbackVars >>

\* searchTweets throws (timeout, non-2xx): caught, logged, rethrown
SearchFail(r) ==
  /\ pc[r] = "search"
  /\ requests' = [ requests EXCEPT ![r] = requests[r] + 1 ]
  /\ pc' = [ pc EXCEPT ![r] = "failed" ]
  /\ result' = [ result EXCEPT ![r] = [ error |-> "searchTweets" ] ]
  /\ UNCHANGED << users, socialAccounts, xActivities, now, runsStarted, dateRange,
                  linkedAccounts, syncPc, existing, allPosts, cursor, pageCount,
                  lastResponse, idx, storedCount, skippedCount, writes, hist, scanVars, codecVars, scoreVars, clientVars, callbackVars >>

(***************************************************************************)
(* Step 6: one iteration of for (const post of allPosts).                  *)
(***************************************************************************)
\* the post is neither from an unlinked author nor outside the date range
Survives(post, linked, range) ==
  /\ MapGet(BuildXIdToGitHubMapping(linked), post.authorId) # Undefined
  /\ ~OutsideDateRange(post, range)

PersistPost(r) ==
  /\ pc[r] = "persist"
  /\ idx[r] <= Len(allPosts[r])
  /\ LET post           == allPosts[r][idx[r]]
         githubUsername == MapGet(BuildXIdToGitHubMapping(linkedAccounts[r]), post.authorId)
     IN  IF githubUsername = Undefined \/ OutsideDateRange(post, dateRange[r])
         THEN /\ skippedCount' = [ skippedCount EXCEPT ![r] = skippedCount[r] + 1 ]
              /\ UNCHANGED << xActivities, storedCount, writes >>
         ELSE /\ xActivities' = StoreXActivity(xActivities, post, githubUsername, now)
              /\ storedCount' = [ storedCount EXCEPT ![r] = storedCount[r] + 1 ]
              /\ writes' = [ writes EXCEPT ![r] = Append(writes[r], post.id) ]
              /\ UNCHANGED skippedCount
  /\ idx' = [ idx EXCEPT ![r] = idx[r] + 1 ]
  /\ UNCHANGED << users, socialAccounts, now, runsStarted, pc, dateRange,
                  linkedAccounts, syncPc, existing, allPosts, cursor, pageCount,
                  requests, lastResponse, result, hist, scanVars, codecVars, scoreVars, clientVars, callbackVars >>

\* the database rejects the write of storeXActivity: caught, logged, rethrown
PersistFailStep(r) ==
  /\ pc[r] = "persist"
  /\ idx[r] <= Len(allPosts[r])
  /\ Survives(allPosts[r][idx[r]], linkedAccounts[r], dateRange[r])
  /\ pc' = [ pc EXCEPT ![r] = "failed" ]
  /\ result' = [ result EXCEPT ![r] = [ error |-> "storeXActivity" ] ]
  /\ UNCHANGED << users, socialAccounts, xActivities, now, runsStarted, dateRange,
                  linkedAccounts, syncPc, existing, allPosts, cursor, pageCount,
                  requests, lastResponse, idx, storedCount, skippedCount, writes, scanVars, codecVars, scoreVars, clientVars, callbackVars >>

\* variant: the result reports the pages fetched as the posts
FinishRunReportsPages(r) ==
  /\ pc[r] = "persist"
  /\ idx[r] > Len(allPosts[r])
  /\ pc' = [ pc EXCEPT ![r] = "done" ]
  /\ result' = [ result EXCEPT ![r] =
                   [ count          |-> storedCount[r],
                     linkedAccounts |-> Len(linkedAccounts[r]),
                     posts          |-> pageCount[r],
                     skipped        |-> skippedCount[r] ] ]
  /\ UNCHANGED << users, socialAccounts, xActivities, now, runsStarted, dateRange,
                  linkedAccounts, syncPc, existing, allPosts, cursor, pageCount,
                  requests, lastResponse, idx, storedCount, skippedCount, writes, hist, scanVars, codecVars, scoreVars, clientVars, callbackVars >>

\* the return after the loop
FinishRun(r) ==
  /\ pc[r] = "persist"
  /\ idx[r] > Len(allPosts[r])
  /\ pc' = [ pc EXCEPT ![r] = "done" ]
  /\ result' = [ result EXCEPT ![r] =
                   [ count          |-> storedCount[r],
                     linkedAccounts |-> Len(linkedAccounts[r]),
                     posts          |-> Len(allPosts[r]),
                     skipped        |-> skippedCount[r] ] ]
  /\ UNCHANGED << users, socialAccounts, xActivities, now, runsStarted, dateRange,
                  linkedAccounts, syncPc, existing, allPosts, cursor, pageCount,
                  requests, lastResponse, idx, storedCount, skippedCount, writes, hist, scanVars, codecVars, scoreVars, clientVars, callbackVars >>

(***************************************************************************)
(* The two steps that the history variable observes, without and with the  *)
(* recording.                                                              *)
(***************************************************************************)
StartRun(r, outcomes, ranges) == StartRunStep(r, outcomes, ranges) /\ UNCHANGED hist

PersistFail(r) == PersistFailStep(r) /\ UNCHANGED hist

StartRunRecorded(r, outcomes, ranges) ==
  /\ StartRunStep(r, outcomes, ranges)
  /\ hist' = [ startStore |-> xActivities,
               failure    |-> IF pc[r] = "failed" THEN hist.failure ELSE NoFailure ]

PersistFailRecorded(r) ==
  /\ PersistFailStep(r)
  /\ hist' = [ hist EXCEPT !.failure =
                 [ store0 |-> hist.startStore,
                   posts  |-> allPosts[r],
                   linked |-> linkedAccounts[r],
                   range  |-> dateRange[r],
                   k      |-> idx[r] ] ]

(***************************************************************************)
(* Specifications.  Spec: the runs of the step follow one another (the     *)
(* pipeline is run periodically).                                          *)
(***************************************************************************)
Next ==
  \/ StartRun("A", ScanOutcomes, DateRanges)
  \/ \E i \in 1..Cardinality(Usernames) : SyncLookup("A", i)
  \/ \E i \in 1..Cardinality(Usernames) : SyncWrite("A", i)
  \/ SearchPage("A", Pages)
  \/ SearchFail("A")
  \/ PersistPost("A")
  \/ PersistFail("A")
  \/ FinishRun("A")

Spec == Init /\ [][Next]_vars

(***************************************************************************)
(* SpecSearch: the same step over a narrow input (one post, one claim, no  *)
(* date filter), for the properties of the pagination loop.                *)
(***************************************************************************)
RerunOutcomes == Claims \cup {NullOutcome}
\* pages of two posts: distinct ids, the same id twice, and one post
RerunPages ==
  { << MkPost("p1", "x1", 1) >>,
    << MkPost("p1", "x1", 1), MkPost("p2", "x1", 2) >>,
    << MkPost("p1", "x1", 1), MkPost("p1", "x2", 2) >>,
    << MkPost("p2", "x1", 2), MkPost("p1", "x2", 2) >> }
SearchPages == { <<>>, << MkPost("p1", "x1", 1) >> }
SearchOutcomes == { Claim("x1", "h1"), NullOutcome }

NextSearch ==
  \/ StartRun("A", SearchOutcomes, {NoRange})
  \/ \E i \in 1..Cardinality(Usernames) : SyncLookup("A", i)
  \/ \E i \in 1..Cardinality(Usernames) : SyncWrite("A", i)
  \/ SearchPage("A", SearchPages)
  \/ SearchFail("A")
  \/ PersistPost("A")
  \/ PersistFail("A")
  \/ FinishRun("A")

SpecSearch == Init /\ [][NextSearch]_vars

(***************************************************************************)
(* SpecWindow: the step run with a date range, over posts before, on and   *)
(* after the bounds of the range, of a linked and of an unlinked author.   *)
(***************************************************************************)
\* context.dateRange: absent, or with both dates set
WindowRanges == { NoRange, <<2, 2>>, <<1, 2>>, <<2, 3>> }
WindowPosts ==
  { MkPost("p1", "x1", 1), MkPost("p2", "x1", 2), MkPost("p3", "x1", 3),
    MkPost("p4", "x2", 2) }
WindowPages == { <<p>> : p \in WindowPosts } \cup { <<p, q>> : p, q \in WindowPosts }

NextWindow ==
  \/ StartRun("A", SearchOutcomes, WindowRanges)
  \/ \E i \in 1..Cardinality(Usernames) : SyncLookup("A", i)
  \/ \E i \in 1..Cardinality(Usernames) : SyncWrite("A", i)
  \/ SearchPage("A", WindowPages \cup { <<>> })
  \/ SearchFail("A")
  \/ PersistPost("A")
  \/ PersistFail("A")
  \/ FinishRun("A")

SpecWindow == Init /\ [][NextWindow]_vars

(***************************************************************************)
(* SpecOverlap: two runs of the step against the same database may         *)
(* overlap (a scheduled run and a manual one); every await is an           *)
(* interleaving point.  Narrow input as in SpecSearch.                     *)
(***************************************************************************)
NextOverlap ==
  \E r \in Slots :
    \/ StartRun(r, SearchOutcomes, {NoRange})
    \/ \E i \in 1..Cardinality(Usernames) : SyncLookup(r, i)
    \/ \E i \in 1..Cardinality(Usernames) : SyncWrite(r, i)
    \/ SearchPage(r, SearchPages)
    \/ SearchFail(r)
    \/ PersistPost(r)
    \/ PersistFail(r)
    \/ FinishRun(r)

SpecOverlap == Init /\ [][NextOverlap]_vars

(***************************************************************************)
(* SpecRerun: Spec with the history of the failed run recorded.            *)
(***************************************************************************)
NextRerun ==
  \/ StartRunRecorded("A", RerunOutcomes, {NoRange})
  \/ \E i \in 1..Cardinality(Usernames) : SyncLookup("A", i)
  \/ \E i \in 1..Cardinality(Usernames) : SyncWrite("A", i)
  \/ SearchPage("A", RerunPages)
  \/ SearchFail("A")
  \/ PersistPost("A")
  \/ PersistFailRecorded("A")
  \/ FinishRun("A")

SpecRerun == Init /\ [][NextRerun]_vars


(***************************************************************************)
(* The profile scanner: scanProfilesForXAccounts, scanProfileForXAccount,  *)
(* fetchProfileReadme.                                                     *)
(***************************************************************************)
\* usernames a scan is called with: the first n of these
ScanNames == <<"u1", "u2", "u3", "u4", "u5">>
\* values of options.concurrency the scan is called with
ConcurrencyValues == {-1, 0, 1, 2}

\* what GitHub holds for a profile: no README (404), a README without a
\* well-formed claim, one with a claim whose proof does not verify, one with
\* a claim that verifies
NoReadme == [ kind |-> "none" ]
ReadmeValues ==
  { NoReadme, [ kind |-> "noclaim" ], [ kind |-> "invalid", claim |-> Claim("x1", "h1") ] }
    \cup { [ kind |-> "valid", claim |-> c ] : c \in Claims }

\* Array.prototype.slice(start, end) on a sequence (0-based, end exclusive,
\* negative indices count from the end)
SliceIndex(k, len) ==
  IF k < 0 THEN (IF len + k < 0 THEN 0 ELSE len + k)
  ELSE (IF k > len THEN len ELSE k)

Slice(seq, start, end) ==
  LET from == SliceIndex(start, Len(seq))
      to   == SliceIndex(end, Len(seq))
  IN  IF from >= to THEN <<>> ELSE SubSeq(seq, from + 1, to)

\* no answer of GitHub about the profile yet
Unfetched == [ kind |-> "unfetched" ]

\* the status GitHub answers with when it holds readme for the profile
StatusOf(readme) == IF readme.kind = "none" THEN "404" ELSE "200"

\* an upstream error: a non-2xx status other than 404, or a network error
UpstreamError == [ kind |-> "error" ]

\* fetchProfileReadme when pRetry rejects: catch (error) { log; return null },
\* so scanProfileForXAccount returns null at if (!readmeContent)
FetchGaveUp == NullOutcome

\* getLinkingSecret(): throws when no linking secret is configured
getLinkingSecretThrows(secretConfigured) == ~secretConfigured

\* verifyXAccountLinking(username, xUserId, xUsername, linkingProof, secret):
\* whether the proof of the claim verifies; it never throws
verifyXAccountLinking(readme) == readme.kind = "valid"

\* variant: a claim that does not verify is thrown as an error
ScanFetchedReadmeInvalidThrows(readme, secretConfigured) ==
  IF readme.kind = "noclaim" THEN NullOutcome
  ELSE IF getLinkingSecretThrows(secretConfigured) THEN Rejected
  ELSE IF ~verifyXAccountLinking(readme) THEN Rejected
  ELSE readme.claim

\* scanProfileForXAccount from the README content on: parse, secret, verify
ScanFetchedReadme(readme, secretConfigured) ==
  IF readme.kind = "noclaim" THEN NullOutcome
  ELSE IF getLinkingSecretThrows(secretConfigured) THEN Rejected
  ELSE IF ~verifyXAccountLinking(readme) THEN NullOutcome
  ELSE readme.claim

\* variant: the handle of the claim is passed as the owner
VerifyArgumentsOwnerFromClaim(username, readme) ==
  [ githubUsername |-> readme.claim.xUsername,
    xUserId        |-> readme.claim.xUserId,
    xUsername      |-> readme.claim.xUsername,
    linkingProof   |-> readme.kind ]

\* the arguments of verifyXAccountLinking(username, xAccount.xUserId,
\* xAccount.xUsername, xAccount.linkingProof, secret); the proof token of a
\* README is known by whether it verifies
VerifyArguments(username, readme) ==
  [ githubUsername |-> username,
    xUserId        |-> readme.claim.xUserId,
    xUsername      |-> readme.claim.xUsername,
    linkingProof   |-> readme.kind ]

\* a scanProfileForXAccount promise: attempts = failed attempts pRetry has
\* counted, requests = calls of fetch, verifies = calls of
\* verifyXAccountLinking, verifyArgs = the arguments of these calls,
\* value = what the promise settled with
Fetching ==
  [ st |-> "fetching", attempts |-> 0, requests |-> 0, verifies |-> 0,
    verifyArgs |-> <<>>, value |-> NullOutcome ]
Settled(task, v) == [ task EXCEPT !.st = "settled", !.value = v ]

\* variant: one more retry than configured
MayRetryOnceMore(task) == task.attempts <= Retries

\* pRetry runs the function again after a failed attempt while the number
\* of failed attempts does not exceed retries
MayRetry(task) == task.attempts < Retries

\* an attempt threw (!res.ok, or fetch itself rejected)
FetchFailed(task) ==
  LET failed == [ task EXCEPT !.attempts = task.attempts + 1 ]
  IN  IF MayRetry(task) THEN failed ELSE Settled(failed, FetchGaveUp)

\* variant: 404 is thrown like every other status that is not ok
NotFoundThrows(task) == FetchFailed(task)

\* res.status === 404: the attempt returns null, pRetry resolves with it
NotFound(task) == Settled(task, NullOutcome)

\* verifyXAccountLinking is called for a parsed claim once the secret is there
VerifyCalls(readme, secretConfigured) ==
  IF readme.kind \in {"valid", "invalid"} /\ secretConfigured THEN 1 ELSE 0

\* variant: parsing and verifying happen inside the function pRetry retries,
\* and a README without a valid claim is thrown as an error
ReadmeFetchedRetriesInvalid(task, readme, secretConfigured) ==
  LET done == [ task EXCEPT !.verifies = task.verifies + VerifyCalls(readme, secretConfigured) ]
  IN  IF ScanFetchedReadme(readme, secretConfigured) = NullOutcome /\ MayRetry(task)
      THEN [ done EXCEPT !.attempts = task.attempts + 1 ]
      ELSE Settled(done, ScanFetchedReadme(readme, secretConfigured))

\* res.ok: pRetry resolves with the response, scanProfileForXAccount goes on
\* with the README content
ReadmeFetched(task, readme, secretConfigured) ==
  Settled([ task EXCEPT !.verifies = task.verifies + VerifyCalls(readme, secretConfigured) ],
          ScanFetchedReadme(readme, secretConfigured))

\* the top of for (let i = 0; i < usernames.length; i += concurrency):
\* either the next batch is started or the function returns
LoopTop(i, usernames, concurrency) ==
  /\ scI' = i
  /\ IF i < Len(usernames)
     THEN LET batch == Slice(usernames, i, i + concurrency)
          IN  /\ scPc' = "batch"
              /\ scBatch' = batch
              /\ scTasks' = [ j \in 1..Len(batch) |-> Fetching ]
     ELSE /\ scPc' = "returned"
          /\ scBatch' = <<>>
          /\ scTasks' = <<>>

ScanStart ==
  /\ scPc = "idle"
  /\ \E n \in 0..MaxScan, c \in ConcurrencyValues, secret \in BOOLEAN :
       LET usernames == SubSeq(ScanNames, 1, n)
           names     == { usernames[k] : k \in 1..n }
       IN  /\ scUsernames' = usernames
           /\ scConcurrency' = c
           /\ scReadme' = [ u \in names |-> Unfetched ]
           /\ scSecret' = secret
           /\ LoopTop(0, usernames, c)
  /\ scLinked' = <<>>
  /\ scScanned' = 0
  /\ scFailed' = 0
  /\ scErrors' = <<>>
  /\ scProgress' = <<>>
  /\ UNCHANGED << orchVars, codecVars, scoreVars, clientVars, callbackVars >>

\* one run of the function pRetry retries, for batch member j: a request,
\* and what its answer leads to
FetchAttempt(j) ==
  /\ scPc = "batch"
  /\ j \in DOMAIN scTasks
  /\ scTasks[j].st = "fetching"
  /\ LET u    == scBatch[j]
         sent == [ scTasks[j] EXCEPT !.requests = scTasks[j].requests + 1 ]
     IN  \E resp \in ReadmeValues \cup {UpstreamError} :
           IF resp = UpstreamError
           THEN /\ scTasks' = [ scTasks EXCEPT ![j] = FetchFailed(sent) ]
                /\ UNCHANGED scReadme
           ELSE /\ scTasks' = [ scTasks EXCEPT ![j] =
                                  IF StatusOf(resp) = "404"
                                  THEN NotFound(sent)
                                  ELSE LET done == ReadmeFetched(sent, resp, scSecret)
                                       IN  IF done.verifies > sent.verifies
                                           THEN [ done EXCEPT !.verifyArgs =
                                                    Append(@, VerifyArguments(u, resp)) ]
                                           ELSE done ]
                /\ scReadme' = [ scReadme EXCEPT ![u] = resp ]
  /\ UNCHANGED << scPc, scUsernames, scConcurrency, scSecret, scI, scBatch,
                  scLinked, scScanned, scFailed, scErrors, scProgress, orchVars, codecVars, scoreVars, clientVars, callbackVars >>

\* variant: the callback is called before scannedCount is incremented
ProgressCallBeforeCount(progress, scanned, total) ==
  Append(progress, << scanned - 1, total >>)

\* if (onProgress) onProgress(scannedCount, usernames.length)
ProgressCall(progress, scanned, total) == Append(progress, << scanned, total >>)

\* the body of the loop over the results, for the result v of username u
CollectOne(acc, u, v, total) ==
  [ linked   |-> IF v \in Claims THEN Append(acc.linked, LinkedAccount(u, v))
                 ELSE acc.linked,
    scanned  |-> acc.scanned + 1,
    failed   |-> IF v = Rejected THEN acc.failed + 1 ELSE acc.failed,
    errors   |-> IF v = Rejected THEN Append(acc.errors, u) ELSE acc.errors,
    progress |-> ProgressCall(acc.progress, acc.scanned + 1, total) ]

\* the for (let j = 0; j < results.length; j++) loop over the settled batch
RECURSIVE CollectResults(_, _, _, _)
CollectResults(acc, batch, tasks, total) ==
  IF batch = <<>> THEN acc
  ELSE CollectResults(CollectOne(acc, Head(batch), Head(tasks).value, total),
                      Tail(batch), Tail(tasks), total)

\* Promise.allSettled resolved: consume the results, then the next batch
\* (after the pause) or the return
Collect ==
  /\ scPc = "batch"
  /\ scI + scConcurrency >= -MaxSpin
  /\ \A j \in DOMAIN scTasks : scTasks[j].st = "settled"
  /\ LET acc == CollectResults([ linked |-> scLinked, scanned |-> scScanned,
                                 failed |-> scFailed, errors |-> scErrors,
                                 progress |-> scProgress ],
                               scBatch, scTasks, Len(scUsernames))
     IN  /\ scLinked' = acc.linked
         /\ scScanned' = acc.scanned
         /\ scFailed' = acc.failed
         /\ scErrors' = acc.errors
         /\ scProgress' = acc.progress
  /\ LoopTop(scI + scConcurrency, scUsernames, scConcurrency)
  /\ UNCHANGED << scUsernames, scConcurrency, scReadme, scSecret, orchVars, codecVars, scoreVars, clientVars, callbackVars >>

NextScan ==
  \/ ScanStart
  \/ \E j \in 1..MaxScan : FetchAttempt(j)
  \/ Collect

SpecScan == Init /\ [][NextScan]_vars

(***************************************************************************)
(* Properties of the ingestion step.                                       *)
(***************************************************************************)
\* the fields of an xActivities row that the claim says are written once
Frozen(row) ==
  << row.username, row.activityType, row.content, row.isAboutSendo,
     row.mentionsSendoMarket, row.hashtagsUsed, row.mediaCount, row.createdAt >>

\* the engagement counters a post carries, as storeXActivity writes them
Counters(post) ==
  << EngagementCount(post), post.likesCount, post.repostsCount, post.repliesCount,
     post.viewsCount >>

RowCounters(row) ==
  << row.engagementCount, row.likesCount, row.repostsCount, row.repliesCount,
     row.viewsCount >>

\* the post the persisting loop of slot r handled in the step just taken
Handled(r) == allPosts[r][idx[r]]
LoopStep(r) ==
  /\ pc[r] = "persist"
  /\ idx[r] <= Len(allPosts[r])
  /\ idx'[r] = idx[r] + 1

\* the author of the post is no key of the id -> owner index of the run
Unlinked(post, linked) == \A i \in DOMAIN linked : linked[i].xUserId # post.authorId

\* C1: persisting a post whose id is already stored changes nothing but the
\* engagement counters and lastUpdated of that row: owner, type, content,
\* flags, hashtags, media count and createdAt stay as first written, and the
\* counters become those of the re-fetched post.
C1_ReingestKeepsContent ==
  [][ \A r \in Slots :
        (LoopStep(r) /\ \E row \in xActivities : row.id = Handled(r).id)
        => \A row \in xActivities :
             \E new \in xActivities' :
               /\ new.id = row.id
               /\ Frozen(new) = Frozen(row)
               /\ (row.id # Handled(r).id => new = row)
               /\ (row.id = Handled(r).id =>
                     \/ new = row
                     \/ RowCounters(new) = Counters(Handled(r)) /\ new.lastUpdated = now) ]_vars

\* a stored row was refreshed in a later run from a post that differs in
\* content and whose author now maps to another owner
C1_Witness ==
  \E r \in Slots : \E i \in 1..(idx[r] - 1) : \E row \in xActivities :
    LET post == allPosts[r][i]
    IN  /\ pc[r] = "persist"
        /\ row.id = post.id
        /\ row.lastUpdated = now
        /\ row.content # post.text
        /\ row.createdAt # post.createdAt
        /\ RowCounters(row) = Counters(post)
        /\ ~Unlinked(post, linkedAccounts[r])
        /\ row.username # MapGet(BuildXIdToGitHubMapping(linkedAccounts[r]), post.authorId)

\* C2: a loop iteration on a post whose author is not in the index adds one
\* to skipped and writes nothing to xActivities.
C2_UnlinkedSkipped ==
  [][ \A r \in Slots :
        (LoopStep(r) /\ Unlinked(Handled(r), linkedAccounts[r]))
        => /\ skippedCount'[r] = skippedCount[r] + 1
           /\ storedCount'[r] = storedCount[r]
           /\ xActivities' = xActivities
           /\ writes'[r] = writes[r] ]_vars

\* the loop passed a post of an unlinked author, with no date filter in force
C2_Witness ==
  \E r \in Slots :
    /\ pc[r] = "persist"
    /\ idx[r] > 1
    /\ dateRange[r] = NoRange
    /\ Unlinked(allPosts[r][idx[r] - 1], linkedAccounts[r])
    /\ skippedCount[r] >= 1
    /\ \A row \in xActivities : row.id # allPosts[r][idx[r] - 1].id

\* the run of slot r has left the search loop without an error
PastSearch(r) == pc[r] \in {"persist", "done"} /\ requests[r] > 0

\* C4: the run leaves the search loop only when the upstream reported no
\* further page or 5 pages were fetched: after a non-empty page that came
\* with a next cursor and has_next_page, and fewer than 5 pages fetched, the
\* next request is issued.
C4_PaginatesWhileMore ==
  \A r \in Slots :
    PastSearch(r) =>
      ~ ( /\ Len(lastResponse[r].tweets) > 0
          /\ lastResponse[r].has_next_page
          /\ lastResponse[r].next_cursor # NoCursor
          /\ pageCount[r] < MaxPages )

\* C5: a run issues at most 5 search requests, one per fetched page plus at
\* most one that ends the loop, whatever the number of linked owners.
C5_AtMostFiveRequests ==
  \A r \in Slots :
    /\ requests[r] <= MaxPages
    /\ requests[r] <= pageCount[r] + 1

\* a run with two linked owners has issued its search request
C5_Witness ==
  \E r \in Slots :
    /\ Len(linkedAccounts[r]) = 2
    /\ PastSearch(r)
    /\ requests[r] = 1
    /\ lastResponse[r].has_next_page

\* C6: a run whose scan links no account is done without error, returns the
\* zero result, has issued no search request, started no account sync and
\* written no activity.
C6_ZeroLinksNoOp ==
  \A r \in Slots :
    (pc[r] # "idle" /\ Len(linkedAccounts[r]) = 0)
    => /\ pc[r] = "done"
       /\ result[r] = [ count |-> 0, linkedAccounts |-> 0, posts |-> 0 ]
       /\ requests[r] = 0
       /\ syncPc[r] = <<>>
       /\ writes[r] = <<>>

\* a run over two users, none of them linked, has ended
C6_Witness ==
  \E r \in Slots :
    /\ pc[r] = "done"
    /\ Len(linkedAccounts[r]) = 0
    /\ Cardinality(users) = 2
    /\ result[r] = [ count |-> 0, linkedAccounts |-> 0, posts |-> 0 ]
    /\ xActivities # {}

\* C7: xActivities holds at most one row per post id, no step removes a
\* row, and persisting a post whose id is stored leaves the set of stored
\* ids as it is.
ActivityIds(table) == { row.id : row \in table }

C7_OneRowPerPost ==
  /\ [] ( \A a, b \in xActivities : a.id = b.id => a = b )
  /\ [][ /\ ActivityIds(xActivities) \subseteq ActivityIds(xActivities')
         /\ \A r \in Slots :
              (LoopStep(r) /\ Handled(r).id \in ActivityIds(xActivities))
              => ActivityIds(xActivities') = ActivityIds(xActivities) ]_vars

\* a run has stored the two posts of a page that carry the same id
C7_Witness ==
  \E r \in Slots :
    /\ Len(allPosts[r]) = 2
    /\ allPosts[r][1].id = allPosts[r][2].id
    /\ allPosts[r][1] # allPosts[r][2]
    /\ Len(writes[r]) = 2
    /\ runsStarted = 2

\* C9: once the account syncs of a run are through, every linked account of
\* the scan has a socialAccounts row with the X user id and the X username
\* of the claim just scanned.
SyncsThrough(r) == pc[r] \in {"search", "persist", "done"} /\ Len(linkedAccounts[r]) > 0

C9_RowCarriesScannedClaim ==
  \A r \in Slots :
    SyncsThrough(r) =>
      \A i \in DOMAIN linkedAccounts[r] :
        \E row \in socialAccounts :
          /\ row.userId = linkedAccounts[r][i].githubUsername
          /\ row.platform = "x"
          /\ row.platformUserId = linkedAccounts[r][i].xUserId
          /\ row.platformUsername = linkedAccounts[r][i].xUsername

\* C8: socialAccounts holds at most one row per user and platform.
C8_OneRowPerOwner ==
  \A a, b \in socialAccounts :
    (a.userId = b.userId /\ a.platform = b.platform) => a = b

\* the table a persisting loop that meets no error leaves, started from
\* table with the clock at t
RECURSIVE PersistAll(_, _, _, _, _)
PersistAll(table, posts, linked, range, t) ==
  IF posts = <<>> THEN table
  ELSE LET post == Head(posts)
           next == IF Survives(post, linked, range)
                   THEN StoreXActivity(table, post,
                                       MapGet(BuildXIdToGitHubMapping(linked), post.authorId), t)
                   ELSE table
       IN  PersistAll(next, Tail(posts), linked, range, t)

PersistFailed(r) == pc[r] = "failed" /\ result[r] = [ error |-> "storeXActivity" ]

\* C10: when the write of a surviving post fails, the run is failed with the
\* error as its outcome; the table holds what the posts before the failing
\* one left in it and no step of the failed run changes it any more; a
\* following run over the same posts and links that ends without error
\* leaves the table a run from the original table without the failure
\* would have left.
C10_FailureKeepsProgress ==
  /\ [] ( \A r \in Slots :
            /\ PersistFailed(r) =>
                 /\ hist.failure # NoFailure
                 /\ Survives(allPosts[r][idx[r]], linkedAccounts[r], dateRange[r])
                 /\ Len(writes[r]) = storedCount[r]
                 /\ xActivities = PersistAll(hist.failure.store0,
                                             SubSeq(allPosts[r], 1, idx[r] - 1),
                                             linkedAccounts[r], dateRange[r], now)
            /\ ( /\ pc[r] = "done"
                 /\ hist.failure # NoFailure
                 /\ hist.failure.posts = allPosts[r]
                 /\ hist.failure.linked = linkedAccounts[r]
                 /\ hist.failure.range = dateRange[r] )
               => xActivities = PersistAll(hist.failure.store0, allPosts[r],
                                           linkedAccounts[r], dateRange[r], now) )
  /\ [][ \A r \in Slots :
           (PersistFailed(r) /\ pc'[r] = "failed") => xActivities' = xActivities ]_vars

\* the write of the second of two surviving posts with different ids failed,
\* and the next run over the same posts and links went through
C10_Witness ==
  \E r \in Slots :
    /\ pc[r] = "done"
    /\ hist.failure # NoFailure
    /\ hist.failure.k = 2
    /\ hist.failure.posts = allPosts[r]
    /\ hist.failure.linked = linkedAccounts[r]
    /\ hist.failure.range = dateRange[r]
    /\ Len(writes[r]) = 2
    /\ writes[r][1] # writes[r][2]
    /\ Cardinality(xActivities) = 2

SearchFailed(r) == result[r] = [ error |-> "searchTweets" ]

\* C11: when a search request fails, the run is failed with that error as
\* its outcome and has stored nothing; as long as the run stays failed it
\* issues no further search request and writes no activity.
C11_SearchFailureAborts ==
  /\ [] ( \A r \in Slots :
            SearchFailed(r) =>
              /\ pc[r] = "failed"
              /\ writes[r] = <<>>
              /\ storedCount[r] = 0
              /\ idx[r] = 1 )
  /\ [][ \A r \in Slots :
           (SearchFailed(r) /\ pc'[r] = "failed")
           => /\ requests'[r] = requests[r]
              /\ writes'[r] = writes[r]
              /\ xActivities' = xActivities ]_vars

\* the search request of a run failed while the table holds a row of an
\* earlier run
C11_Witness ==
  \E r \in Slots :
    /\ SearchFailed(r)
    /\ requests[r] = 1
    /\ Len(linkedAccounts[r]) > 0
    /\ xActivities # {}

\* C21: the index built from the linked accounts of a run has exactly the
\* X user ids of the list as keys, and sends each to the GitHub username of
\* the last record that carries the id.
C21_IndexLastWins ==
  \A r \in Slots :
    LET linked == linkedAccounts[r]
        index  == BuildXIdToGitHubMapping(linked)
    IN  /\ DOMAIN index = { linked[i].xUserId : i \in DOMAIN linked }
        /\ \A i \in DOMAIN linked :
             (\A j \in DOMAIN linked : linked[j].xUserId = linked[i].xUserId => j <= i)
             => index[linked[i].xUserId] = linked[i].githubUsername

\* a run whose two linked accounts claim the same X user id has attributed
\* a post of that id to the owner of the second
C21_Witness ==
  \E r \in Slots :
    /\ Len(linkedAccounts[r]) = 2
    /\ linkedAccounts[r][1].xUserId = linkedAccounts[r][2].xUserId
    /\ linkedAccounts[r][1].githubUsername # linkedAccounts[r][2].githubUsername
    /\ \E row \in xActivities :
         /\ row.username = linkedAccounts[r][2].githubUsername
         /\ Len(writes[r]) > 0
         /\ row.id = writes[r][1]

(***************************************************************************)
(* Properties of the profile scanner.                                      *)
(***************************************************************************)
\* the usernames whose every fetch attempt met an upstream error
GaveUpNames == { u \in DOMAIN scReadme : scReadme[u] = Unfetched }

\* the records of the usernames whose README holds a claim that verifies,
\* in the order of usernames
ValidNames == SelectSeq(scUsernames, LAMBDA u : scReadme[u].kind = "valid")
ExpectedLinked ==
  [ k \in 1..Len(ValidNames) |-> LinkedAccount(ValidNames[k], scReadme[ValidNames[k]].claim) ]

\* the scan has returned, the fetch of exactly one username failed on every
\* attempt, and nothing else failed
OneFetchAlwaysThrows ==
  /\ scPc = "returned"
  /\ scSecret
  /\ Cardinality(GaveUpNames) = 1

\* C3: with the fetch of exactly one of N usernames failing on
\* every attempt, the scan returns scanned = N, failed = 1 with that
\* username in errors, and linked holds the records of the others that
\* carry a valid claim.
C3_FailedFetchCounted ==
  OneFetchAlwaysThrows =>
    /\ scScanned = Len(scUsernames)
    /\ scFailed = 1
    /\ \E u \in GaveUpNames : scErrors = << u >>
    /\ scLinked = ExpectedLinked

\* the usernames of a sequence of linked accounts, the usernames in errors
LinkedNames == { scLinked[k].githubUsername : k \in DOMAIN scLinked }
ErrorNames == { scErrors[k] : k \in DOMAIN scErrors }

\* the usernames whose README held a well-formed claim, so that the scan
\* asked for the linking secret
ClaimNames == { u \in DOMAIN scReadme : scReadme[u].kind \in {"valid", "invalid"} }

\* C12: when no linking secret is configured and a claim needs one, the
\* scan does not go on to return a result, and the condition is not booked
\* as a per-identity failure.
C12_NoSecretAborts ==
  (~scSecret /\ ClaimNames # {}) =>
    /\ scPc # "returned"
    /\ scFailed = 0
    /\ scErrors = <<>>

\* the usernames whose README holds a well-formed claim that does not verify
InvalidNames == { u \in DOMAIN scReadme : scReadme[u].kind = "invalid" }

\* C13: with a secret configured, a username whose claim does not verify is
\* never in linked nor in errors and nothing is counted in failed; at return
\* every username is scanned and linked holds the records of the usernames
\* with a valid claim.
C13_InvalidClaimIsNoLink ==
  scSecret =>
    /\ InvalidNames \cap (LinkedNames \cup ErrorNames) = {}
    /\ scFailed = 0
    /\ scPc = "returned" =>
         /\ scScanned = Len(scUsernames)
         /\ scLinked = ExpectedLinked

\* a scan of three usernames has returned; one claim did not verify, a later
\* one did
C13_Witness ==
  /\ scPc = "returned"
  /\ scSecret
  /\ Len(scUsernames) = 3
  /\ scReadme["u1"].kind = "invalid"
  /\ scReadme["u3"].kind = "valid"
  /\ LinkedNames = {"u3"}

\* the step stays within the batch that is in flight
SameBatch == scPc = "batch" /\ scPc' = "batch" /\ scI' = scI /\ scBatch' = scBatch

\* in this step GitHub answered 404 to the request for batch member j
Answered404(j) ==
  /\ SameBatch
  /\ scReadme[scBatch[j]] = Unfetched
  /\ scReadme'[scBatch[j]] = NoReadme

\* C14: a 404 answer settles the fetch with "no profile" in the step of
\* that request and counts no failed attempt (a first request that is
\* answered 404 is the only one); the settled fetch issues no further
\* request, and the username is never in linked nor in errors.
C14_NotFoundEndsFetch ==
  /\ [][ \A j \in DOMAIN scTasks :
           /\ Answered404(j) =>
                /\ scTasks'[j].st = "settled"
                /\ scTasks'[j].value = NullOutcome
                /\ scTasks'[j].requests = scTasks[j].requests + 1
                /\ scTasks'[j].attempts = scTasks[j].attempts
                /\ scTasks'[j].requests = scTasks'[j].attempts + 1
           /\ (SameBatch /\ scReadme[scBatch[j]] = NoReadme) =>
                scTasks'[j] = scTasks[j] ]_vars
  /\ [] ( \A u \in DOMAIN scReadme :
            scReadme[u] = NoReadme => u \notin LinkedNames \cup ErrorNames )

\* the scan has returned; the first username was answered 404, a later one
\* is linked
C14_Witness ==
  /\ scPc = "returned"
  /\ Len(scUsernames) = 3
  /\ scReadme["u1"] = NoReadme
  /\ "u2" \in LinkedNames
  /\ scScanned = 3
  /\ scFailed = 0

\* C15: a fetch issues at most 4 requests (Retries + 1), every request but
\* the last one of a fetch ended in a failed attempt, and a settled fetch
\* (given up, answered 404 or answered with a README) issues no further
\* request.
C15_AtMostFourRequests ==
  /\ [] ( \A j \in DOMAIN scTasks :
            /\ scTasks[j].requests <= Retries + 1
            /\ scTasks[j].attempts <= scTasks[j].requests
            /\ scTasks[j].requests <= scTasks[j].attempts + 1
            /\ scTasks[j].st = "fetching" => scTasks[j].requests = scTasks[j].attempts )
  /\ [][ \A j \in DOMAIN scTasks :
           (SameBatch /\ scTasks[j].st = "settled") => scTasks'[j] = scTasks[j] ]_vars

\* one fetch of the batch was given up after 4 requests, another one was
\* answered at its 4th request after 3 failed attempts
C15_Witness ==
  /\ scPc = "batch"
  /\ Len(scBatch) = 2
  /\ scTasks[1].st = "settled"
  /\ scTasks[1].requests = 4
  /\ scTasks[1].attempts = 4
  /\ scReadme[scBatch[1]] = Unfetched
  /\ scTasks[2].st = "settled"
  /\ scTasks[2].requests = 4
  /\ scTasks[2].attempts = 3
  /\ scReadme[scBatch[2]].kind = "valid"

\* C16: once GitHub has answered with the README of a profile, the fetch is
\* settled, whatever the README holds; the profile is not requested again
\* and its claim is verified at most once.
C16_NoRetryAfterFetch ==
  /\ [] ( \A j \in DOMAIN scTasks :
            /\ scTasks[j].verifies <= 1
            /\ scReadme[scBatch[j]] # Unfetched => scTasks[j].st = "settled" )
  /\ [][ \A j \in DOMAIN scTasks :
           (SameBatch /\ scReadme[scBatch[j]] # Unfetched) => scTasks'[j] = scTasks[j] ]_vars

\* a batch of two is settled after one request each: a README without a
\* claim, and a claim that was verified once and did not verify
C16_Witness ==
  /\ scPc = "batch"
  /\ Len(scBatch) = 2
  /\ scReadme[scBatch[1]].kind = "noclaim"
  /\ scReadme[scBatch[2]].kind = "invalid"
  /\ scTasks[1] = [ st |-> "settled", attempts |-> 0, requests |-> 1, verifies |-> 0,
                    verifyArgs |-> <<>>, value |-> NullOutcome ]
  /\ scTasks[2] = [ st |-> "settled", attempts |-> 0, requests |-> 1, verifies |-> 1,
                    verifyArgs |-> << VerifyArguments(scBatch[2], scReadme[scBatch[2]]) >>,
                    value |-> NullOutcome ]

\* the scanProfileForXAccount promises that are started and not settled
InFlight == Cardinality({ j \in DOMAIN scTasks : scTasks[j].st = "fetching" })

\* the batch size the configured value stands for: itself, not fewer than 1
BatchSize == IF scConcurrency >= 1 THEN scConcurrency ELSE 1

\* C17: the number of profile scans in flight never exceeds the configured
\* batch size, and a new batch is started only when every promise of the
\* batch before has settled.
C17_InFlightWithinConcurrency ==
  /\ [] ( scPc = "batch" => InFlight <= BatchSize )
  /\ [][ (scPc = "batch" /\ scI' # scI) =>
           \A j \in DOMAIN scTasks : scTasks[j].st = "settled" ]_vars

\* C18: every batch holds at least one username and starts at an index
\* from 0 on, whatever options.concurrency is, so that each turn of the
\* loop brings the scan nearer to its return.
C18_BatchNeverEmpty ==
  scPc = "batch" =>
    /\ Len(scBatch) >= 1
    /\ scI >= 0
    /\ scI < Len(scUsernames)

\* C19: the calls of onProgress so far are (1, N), (2, N), ... in that
\* order, one per result consumed, and at return there are N of them.
C19_ProgressCountsUp ==
  /\ Len(scProgress) = scScanned
  /\ \A k \in DOMAIN scProgress : scProgress[k] = << k, Len(scUsernames) >>
  /\ scPc = "returned" => Len(scProgress) = Len(scUsernames)

\* a scan of three usernames in batches of two has returned: one profile
\* was answered 404, one fetch was given up, one scan was rejected
C19_Witness ==
  /\ scPc = "returned"
  /\ scConcurrency = 2
  /\ scProgress = << << 1, 3 >>, << 2, 3 >>, << 3, 3 >> >>
  /\ \E u \in DOMAIN scReadme : scReadme[u] = NoReadme
  /\ \E u \in DOMAIN scReadme : scReadme[u] = Unfetched
  /\ scFailed = 1

\* the usernames whose scan ended in an error: the fetch was given up, or
\* scanProfileForXAccount threw
ErroredNames == GaveUpNames \cup { u \in ClaimNames : ~scSecret }

\* C20: failed is the length of errors, no username is twice in errors,
\* linked and failed together do not exceed scanned; at return every
\* username is scanned and errors holds exactly the usernames whose scan
\* ended in an error.
C20_EveryIdentityProcessed ==
  /\ scFailed = Len(scErrors)
  /\ \A a, b \in DOMAIN scErrors : scErrors[a] = scErrors[b] => a = b
  /\ Len(scLinked) + scFailed <= scScanned
  /\ scPc = "returned" =>
       /\ scScanned = Len(scUsernames)
       /\ ErrorNames = ErroredNames

(***************************************************************************)
(* readmeUtils: the linking claim kept in the profile README.  A text is a *)
(* sequence of tokens: each sentinel is one token, "\n" and " " are the    *)
(* whitespace, a JSON punctuation mark or key is one token, and any other  *)
(* token is ordinary text.  Indices count tokens from 0, as the string     *)
(* methods count characters.                                               *)
(***************************************************************************)
MaxParts == 2          \* parts a README is put together from
MaxUpserts == 2        \* calls of generateUpdatedReadmeWithXInfo on one README

X_SECTION_BEGIN_MARKER == "<!-- X-LINKING-BEGIN"
X_SECTION_END_MARKER == "X-LINKING-END -->"
Newline == "\n"
Space == " "
Whitespace == { Newline, Space }
DoubleQuote == "\""

SetMin(S) == CHOOSE m \in S : \A n \in S : m <= n
SetMax(S) == CHOOSE m \in S : \A n \in S : n <= m

\* String.prototype.indexOf: the position of the first occurrence, or -1
IndexOf(text, token) ==
  LET at == { i \in DOMAIN text : text[i] = token }
  IN  IF at = {} THEN -1 ELSE SetMin(at) - 1

\* String.prototype.substring(from, to) and substring(from)
Substring(text, from, to) == SubSeq(text, from + 1, to)
SubstringFrom(text, from) == SubSeq(text, from + 1, Len(text))

\* String.prototype.trim: whitespace removed at both ends
Trim(text) ==
  LET kept == { i \in DOMAIN text : text[i] \notin Whitespace }
  IN  IF kept = {} THEN <<>> ELSE SubSeq(text, SetMin(kept), SetMax(kept))

\* String.prototype.endsWith
EndsWith(text, token) == text # <<>> /\ text[Len(text)] = token

(***************************************************************************)
(* JSON.stringify(value, null, 2) and JSON.parse on the documents of the   *)
(* claim section: an object with lastUpdated and xAccount, the latter an   *)
(* object of string members.  A string is a sequence of tokens.            *)
(***************************************************************************)
AccountFieldNames == << "xUsername", "xUserId", "linkedAt", "linkingProof" >>

JsonKey == [ lastUpdated  |-> "\"lastUpdated\":",
             xAccount     |-> "\"xAccount\":",
             xUsername    |-> "\"xUsername\":",
             xUserId      |-> "\"xUserId\":",
             linkedAt     |-> "\"linkedAt\":",
             linkingProof |-> "\"linkingProof\":" ]

JsonString(s) == << DoubleQuote >> \o s \o << DoubleQuote >>

JsonMember(object, name) == << JsonKey[name] >> \o JsonString(object[name])

RECURSIVE JsonMembers(_, _)
JsonMembers(object, names) ==
  IF names = <<>> THEN <<>>
  ELSE IF Len(names) = 1 THEN JsonMember(object, names[1])
  ELSE JsonMember(object, names[1]) \o << ",", Newline >>
         \o JsonMembers(object, Tail(names))

JsonObject(members) ==
  IF members = <<>> THEN << "{", "}" >>
  ELSE << "{", Newline >> \o members \o << Newline, "}" >>

PresentNames(object) == SelectSeq(AccountFieldNames, LAMBDA n : n \in DOMAIN object)

JsonStringifyData(data) ==
  LET account == JsonObject(JsonMembers(data.xAccount, PresentNames(data.xAccount)))
      first   == IF "lastUpdated" \in DOMAIN data
                 THEN JsonMember(data, "lastUpdated") \o << ",", Newline >>
                 ELSE <<>>
  IN  JsonObject(first \o << JsonKey["xAccount"] >> \o account)

SyntaxError == [ syntaxError |-> TRUE ]
StringMark == "<string>"

\* JSON.parse reading a text from token i on, inside a string literal or
\* not: the string literals without their quotes, and the text outside
\* them with whitespace dropped and each literal replaced by a mark
RECURSIVE JsonScan(_, _, _, _)
JsonScan(text, i, inString, read) ==
  IF i > Len(text) THEN [ read EXCEPT !.unterminated = inString ]
  ELSE IF text[i] = DoubleQuote
  THEN IF inString
       THEN JsonScan(text, i + 1, FALSE, read)
       ELSE JsonScan(text, i + 1, TRUE,
                     [ read EXCEPT !.skeleton = Append(@, StringMark),
                                   !.strings = Append(@, <<>>) ])
  ELSE IF inString
  THEN JsonScan(text, i + 1, TRUE,
                [ read EXCEPT !.strings[Len(read.strings)] = Append(@, text[i]) ])
  ELSE IF text[i] \in Whitespace
  THEN JsonScan(text, i + 1, FALSE, read)
  ELSE JsonScan(text, i + 1, FALSE, [ read EXCEPT !.skeleton = Append(@, text[i]) ])

JsonRead(text) ==
  JsonScan(text, 1, FALSE, [ skeleton |-> <<>>, strings |-> <<>>, unterminated |-> FALSE ])

\* the objects of the section's shape, each member the empty string
JsonShapes ==
  { [ xAccount |-> [ n \in names |-> <<>> ] ] :
      names \in SUBSET { AccountFieldNames[i] : i \in DOMAIN AccountFieldNames } }
  \cup
  { [ lastUpdated |-> <<>>, xAccount |-> [ n \in names |-> <<>> ] ] :
      names \in SUBSET { AccountFieldNames[i] : i \in DOMAIN AccountFieldNames } }

\* the skeleton of each shape
ShapeSkeleton == [ d \in JsonShapes |-> JsonRead(JsonStringifyData(d)).skeleton ]

\* JSON.parse: the value of a well-formed document, SyntaxError otherwise
JsonParse(text) ==
  LET read   == JsonRead(text)
      shapes == { d \in JsonShapes : ShapeSkeleton[d] = read.skeleton }
  IN  IF read.unterminated \/ shapes = {} THEN SyntaxError
      ELSE LET shape  == CHOOSE d \in shapes : TRUE
               offset == IF "lastUpdated" \in DOMAIN shape THEN 1 ELSE 0
               names  == PresentNames(shape.xAccount)
               place  == [ n \in DOMAIN shape.xAccount |->
                             offset + CHOOSE i \in DOMAIN names : names[i] = n ]
               account == [ n \in DOMAIN shape.xAccount |-> read.strings[place[n]] ]
           IN  IF offset = 1
               THEN [ lastUpdated |-> read.strings[1], xAccount |-> account ]
               ELSE [ xAccount |-> account ]

\* new Date().toISOString() at successive calls
IsoTimes == << "2025-01-01T00:00:00.000Z", "2025-01-02T00:00:00.000Z",
               "2025-01-03T00:00:00.000Z", "2025-01-04T00:00:00.000Z" >>

\* z.string().datetime()
IsDatetime(s) == Len(s) = 1 /\ \E i \in DOMAIN IsoTimes : s[1] = IsoTimes[i]

\* LinkedXAccountSchema accepts the value
ValidXAccount(account) ==
  /\ \A i \in DOMAIN AccountFieldNames : AccountFieldNames[i] \in DOMAIN account
  /\ Len(account.xUsername) >= 1
  /\ Len(account.xUserId) >= 1
  /\ IsDatetime(account.linkedAt)
  /\ Len(account.linkingProof) >= 1

\* XLinkingDataSchema accepts the value
ValidXLinkingData(data) ==
  /\ "lastUpdated" \in DOMAIN data
  /\ IsDatetime(data.lastUpdated)
  /\ ValidXAccount(data.xAccount)

NullData == [ null |-> TRUE ]

\* variant: a document that does not parse is an exception of the caller
parseXLinkingDataFromReadmeNoCatch(readmeContent) ==
  LET startIndex == IndexOf(readmeContent, X_SECTION_BEGIN_MARKER)
      endIndex   == IndexOf(readmeContent, X_SECTION_END_MARKER)
  IN  IF startIndex = -1 \/ endIndex = -1 \/ endIndex <= startIndex
      THEN NullData
      ELSE LET xSectionContent == Trim(Substring(readmeContent, startIndex + 1, endIndex))
               rawData == JsonParse(xSectionContent)
           IN  IF rawData = SyntaxError THEN [ thrown |-> TRUE ]
               ELSE IF ~ValidXLinkingData(rawData) THEN NullData
               ELSE rawData

\* parseXLinkingDataFromReadme; the begin marker is one token long
parseXLinkingDataFromReadme(readmeContent) ==
  LET startIndex == IndexOf(readmeContent, X_SECTION_BEGIN_MARKER)
      endIndex   == IndexOf(readmeContent, X_SECTION_END_MARKER)
  IN  IF startIndex = -1 \/ endIndex = -1 \/ endIndex <= startIndex
      THEN NullData
      ELSE LET xSectionContent == Trim(Substring(readmeContent, startIndex + 1, endIndex))
               rawData == JsonParse(xSectionContent)
           IN  IF rawData = SyntaxError THEN NullData
               ELSE IF ~ValidXLinkingData(rawData) THEN NullData
               ELSE rawData

\* the section text of generateUpdatedReadmeWithXInfo and generateReadmeXSection
XSection(validatedData) ==
  << X_SECTION_BEGIN_MARKER, Newline >> \o JsonStringifyData(validatedData)
    \o << Newline, X_SECTION_END_MARKER >>

\* variant: nothing is put behind a text that ends with a newline
SeparatorOnlyBlankLine(currentReadme) ==
  IF Trim(currentReadme) # <<>> /\ ~EndsWith(currentReadme, Newline)
  THEN << Newline, Newline >>
  ELSE <<>>

\* the separator of the append branch
Separator(currentReadme) ==
  IF Trim(currentReadme) # <<>> /\ ~EndsWith(currentReadme, Newline)
  THEN << Newline, Newline >>
  ELSE IF Trim(currentReadme) # <<>> THEN << Newline >>
  ELSE <<>>

ZodError == [ zodError |-> TRUE ]

\* generateUpdatedReadmeWithXInfo at the time isoNow; the end marker is one
\* token long
generateUpdatedReadmeWithXInfo(currentReadme, xAccount, isoNow) ==
  IF ~ValidXAccount(xAccount) THEN ZodError
  ELSE
    LET xData      == [ lastUpdated |-> << isoNow >>, xAccount |-> xAccount ]
        xSection   == XSection(xData)
        startIndex == IndexOf(currentReadme, X_SECTION_BEGIN_MARKER)
        endIndex   == IndexOf(currentReadme, X_SECTION_END_MARKER)
    IN  IF startIndex # -1 /\ endIndex # -1 /\ endIndex > startIndex
        THEN [ updatedReadme |->
                 Substring(currentReadme, 0, startIndex) \o xSection
                   \o SubstringFrom(currentReadme, endIndex + 1),
               xData |-> xData ]
        ELSE [ updatedReadme |->
                 Trim(currentReadme) \o Separator(currentReadme) \o xSection,
               xData |-> xData ]

(***************************************************************************)
(* The accounts passed in and the READMEs found.                           *)
(***************************************************************************)
XAccount(handle, id) ==
  [ xUsername    |-> handle,
    xUserId      |-> << id >>,
    linkedAt     |-> << IsoTimes[1] >>,
    linkingProof |-> << "proof" >> ]

AccountA == XAccount(<< "alice" >>, "1001")
AccountB == XAccount(<< "bob" >>, "1002")
\* a handle that holds the text of the end sentinel
AccountEndInside == XAccount(<< "eve", X_SECTION_END_MARKER >>, "1003")
\* the empty handle
AccountEmpty == XAccount(<<>>, "1005")

XAccounts == { AccountA, AccountB, AccountEndInside, AccountEmpty }

\* what a profile owner may have between the sentinels
Payloads ==
  { JsonStringifyData([ lastUpdated |-> << IsoTimes[1] >>, xAccount |-> AccountA ]),
    JsonStringifyData([ lastUpdated |-> << IsoTimes[1] >>, xAccount |-> AccountEmpty ]),
    JsonStringifyData([ lastUpdated |-> << "yesterday" >>, xAccount |-> AccountA ]),
    JsonStringifyData([ lastUpdated |-> << IsoTimes[1] >>,
                        xAccount |-> [ xUsername |-> << "alice" >>,
                                       xUserId |-> << "1001" >>,
                                       linkedAt |-> << IsoTimes[1] >> ] ]),
    << "{", "not", "json" >> }

Parts ==
  { << X_SECTION_BEGIN_MARKER >>, << X_SECTION_END_MARKER >>, << Newline >>,
    << Space >>, << "text" >> }
  \cup { << X_SECTION_BEGIN_MARKER, Newline >> \o p \o << Newline, X_SECTION_END_MARKER >> :
           p \in Payloads }

RECURSIVE Texts(_)
Texts(n) ==
  IF n = 0 THEN { <<>> }
  ELSE LET shorter == Texts(n - 1)
       IN  shorter \cup { t \o p : t \in shorter, p \in Parts }

\* a README is found
InitCodec ==
  /\ StepIdle /\ ScanIdle /\ ScoreIdle /\ ClientIdle /\ CallbackIdle
  /\ readmeText \in Texts(MaxParts)
  /\ baseReadme = readmeText
  /\ upserted = <<>>
  /\ generated = NoText

\* generateUpdatedReadmeWithXInfo is called and the text it returns is
\* written back; a throw leaves the README as it was
Upsert(xAccount) ==
  /\ Len(upserted) < MaxUpserts
  /\ LET out == generateUpdatedReadmeWithXInfo(readmeText, xAccount,
                                               IsoTimes[Len(upserted) + 1])
     IN  /\ generated' = out
         /\ readmeText' = IF out = ZodError THEN readmeText ELSE out.updatedReadme
  /\ upserted' = Append(upserted, xAccount)
  /\ UNCHANGED << baseReadme, orchVars, scanVars, scoreVars, clientVars, callbackVars >>

NextCodec == \E xAccount \in XAccounts : Upsert(xAccount)

SpecCodec == InitCodec /\ [][NextCodec]_vars

(***************************************************************************)
(* X scoring (calculateActivityScore, calculateXScore).  A JS number is a  *)
(* fraction n/d in lowest terms with d > 0.                                *)
(***************************************************************************)
MaxActivities == 4     \* activities passed to one call of calculateXScore

RECURSIVE Gcd(_, _)
Gcd(a, b) == IF b = 0 THEN a ELSE Gcd(b, a % b)

\* the number n/d
Num(n, d) ==
  LET Abs(a) == IF a < 0 THEN -a ELSE a
      g == Gcd(Abs(n), Abs(d))
      s == IF d < 0 THEN -1 ELSE 1
  IN  [ n |-> s * (n \div g), d |-> s * (d \div g) ]

Whole(k) == Num(k, 1)
Plus(x, y) == Num(x.n * y.d + y.n * x.d, x.d * y.d)
Times(x, y) == Num(x.n * y.n, x.d * y.d)
LessEq(x, y) == x.n * y.d <= y.n * x.d
\* Math.min
MathMin(x, y) == IF LessEq(x, y) THEN x ELSE y
\* Math.pow with an exponent that is a natural number
RECURSIVE MathPow(_, _)
MathPow(x, k) == IF k = 0 THEN Whole(1) ELSE Times(x, MathPow(x, k - 1))
\* Math.round: the nearest integer, a half rounded up
MathRound(x) == (2 * x.n + x.d) \div (2 * x.d)
\* Math.round(x * 100) / 100
RoundToCents(x) == Num(MathRound(Times(x, Whole(100))), 100)

DEFAULT_X_SCORING ==
  [ post   |-> [ base |-> Whole(5), mentionsSendoMarket |-> Num(15, 10),
                 usesHashtag |-> Num(11, 10), hasMedia |-> Num(12, 10) ],
    quote  |-> [ base |-> Whole(4) ],
    reply  |-> [ base |-> Whole(2) ],
    repost |-> [ base |-> Whole(1) ],
    daily  |-> [ maxPosts |-> 15,
                 diminishingReturnsThreshold |-> 3,
                 diminishingReturnsPenalty |-> Num(7, 10),
                 maxPointsPerDay |-> Whole(25) ] ]

\* a config that counts two activities a day, penalises from the second on
\* and caps a day at 2.125
TightScoring ==
  [ post   |-> [ base |-> Whole(2), mentionsSendoMarket |-> Num(3, 2),
                 usesHashtag |-> Whole(1), hasMedia |-> Whole(2) ],
    quote  |-> [ base |-> Whole(1) ],
    reply  |-> [ base |-> Whole(1) ],
    repost |-> [ base |-> Num(1, 2) ],
    daily  |-> [ maxPosts |-> 2,
                 diminishingReturnsThreshold |-> 1,
                 diminishingReturnsPenalty |-> Num(1, 2),
                 maxPointsPerDay |-> Num(17, 8) ] ]

\* a config that takes a point away for a repost
PenalisingScoring ==
  [ DEFAULT_X_SCORING EXCEPT !.repost.base = Whole(-1),
                             !.daily.diminishingReturnsThreshold = 1,
                             !.daily.diminishingReturnsPenalty = Num(1, 2) ]

ScoringConfigs == { DEFAULT_X_SCORING, TightScoring, PenalisingScoring }

\* JSON.parse of a stored hashtagsUsed
HashtagLists == { <<>>, << "sendo" >>, << "defi" >> }
ParseHashtags(hashtagsUsed) ==
  CHOOSE tags \in HashtagLists : JsonStringify(tags) = hashtagsUsed

Includes(tags, tag) == \E i \in DOMAIN tags : tags[i] = tag

\* variant: the bonuses are added up instead of multiplied
PostMultiplierAdditive(activity, config) ==
  LET bonus(m) == Plus(m, Whole(-1))
      m1 == IF activity.mentionsSendoMarket
            THEN config.post.mentionsSendoMarket ELSE Whole(1)
      m2 == IF Includes(ParseHashtags(activity.hashtagsUsed), "sendo")
            THEN Plus(m1, bonus(config.post.usesHashtag)) ELSE m1
  IN  IF activity.mediaCount > 0 THEN Plus(m2, bonus(config.post.hasMedia)) ELSE m2

\* the multiplier of a "post"
PostMultiplier(activity, config) ==
  LET m1 == IF activity.mentionsSendoMarket
            THEN config.post.mentionsSendoMarket ELSE Whole(1)
      m2 == IF Includes(ParseHashtags(activity.hashtagsUsed), "sendo")
            THEN Times(m1, config.post.usesHashtag) ELSE m1
  IN  IF activity.mediaCount > 0 THEN Times(m2, config.post.hasMedia) ELSE m2

\* variant: the multipliers are applied to every type
calculateActivityScoreMultipliersForAll(activity, config, positionInDay) ==
  LET baseScore == Times(config[activity.activityType].base,
                         PostMultiplier(activity, config))
  IN  IF activity.activityType \notin { "post", "quote", "reply", "repost" }
      THEN Whole(0)
      ELSE IF positionInDay > config.daily.diminishingReturnsThreshold
      THEN Times(baseScore,
                 MathPow(config.daily.diminishingReturnsPenalty,
                         positionInDay - config.daily.diminishingReturnsThreshold))
      ELSE baseScore

\* variant: the penalty starts at the threshold
calculateActivityScoreFromThreshold(activity, config, positionInDay) ==
  LET base == config[activity.activityType].base
      baseScore == IF activity.activityType = "post"
                   THEN Times(base, PostMultiplier(activity, config))
                   ELSE base
  IN  IF activity.activityType \notin { "post", "quote", "reply", "repost" }
      THEN Whole(0)
      ELSE IF positionInDay >= config.daily.diminishingReturnsThreshold
      THEN Times(baseScore,
                 MathPow(config.daily.diminishingReturnsPenalty,
                         positionInDay - config.daily.diminishingReturnsThreshold + 1))
      ELSE baseScore

calculateActivityScore(activity, config, positionInDay) ==
  IF activity.activityType \notin { "post", "quote", "reply", "repost" }
  THEN Whole(0)
  ELSE LET base == config[activity.activityType].base
           baseScore == IF activity.activityType = "post"
                        THEN Times(base, PostMultiplier(activity, config))
                        ELSE base
       IN  IF positionInDay > config.daily.diminishingReturnsThreshold
           THEN Times(baseScore,
                      MathPow(config.daily.diminishingReturnsPenalty,
                              positionInDay - config.daily.diminishingReturnsThreshold))
           ELSE baseScore

\* instants of one UTC day
TicksPerDay == 2
\* toDateString(new UTCDate(createdAt))
DateKey(activity) == activity.createdAt \div TicksPerDay

\* groupBy: the keys in the order they first occur
RECURSIVE DateKeys(_)
DateKeys(activities) ==
  IF activities = <<>> THEN <<>>
  ELSE LET n    == Len(activities)
           rest == DateKeys(SubSeq(activities, 1, n - 1))
           key  == DateKey(activities[n])
       IN  IF \E i \in DOMAIN rest : rest[i] = key THEN rest ELSE Append(rest, key)

\* groupBy: the activities of one key, in the order of the argument
DayActivities(activities, key) == SelectSeq(activities, LAMBDA a : DateKey(a) = key)

\* variant: the day's activities are left in the order they came in
SortKeepsOrder(s) == s

\* Array.prototype.sort with the comparator of createdAt: stable, ascending
RECURSIVE SortByCreatedAt(_)
SortByCreatedAt(s) ==
  IF s = <<>> THEN <<>>
  ELSE LET n      == Len(s)
           sorted == SortByCreatedAt(SubSeq(s, 1, n - 1))
           k      == Cardinality({ i \in DOMAIN sorted :
                                     sorted[i].createdAt <= s[n].createdAt })
       IN  SubSeq(sorted, 1, k) \o << s[n] >> \o SubSeq(sorted, k + 1, n - 1)

\* sortedActivities.slice(0, config.daily.maxPosts)
CappedActivities(dayActivities, config) ==
  Slice(SortByCreatedAt(dayActivities), 0, config.daily.maxPosts)

\* the activityScore of each capped activity of a day, in order
ActivityScores(dayActivities, config) ==
  LET capped == CappedActivities(dayActivities, config)
  IN  [ i \in DOMAIN capped |-> calculateActivityScore(capped[i], config, i) ]

RECURSIVE Sum(_)
Sum(scores) ==
  IF scores = <<>> THEN Whole(0)
  ELSE Plus(Sum(SubSeq(scores, 1, Len(scores) - 1)), scores[Len(scores)])

\* variant: the day's sum is not capped
DayScoreUncapped(dayActivities, config) == Sum(ActivityScores(dayActivities, config))

\* dayScore after Math.min(dayScore, config.daily.maxPointsPerDay)
DayScore(dayActivities, config) ==
  MathMin(Sum(ActivityScores(dayActivities, config)), config.daily.maxPointsPerDay)

\* the activities that pass the daily cap, day after day
RECURSIVE Counted(_, _, _)
Counted(activities, keys, config) ==
  IF keys = <<>> THEN <<>>
  ELSE CappedActivities(DayActivities(activities, keys[1]), config)
         \o Counted(activities, Tail(keys), config)

\* totalScore before rounding
RECURSIVE TotalScore(_, _, _)
TotalScore(activities, keys, config) ==
  IF keys = <<>> THEN Whole(0)
  ELSE Plus(DayScore(DayActivities(activities, keys[1]), config),
            TotalScore(activities, Tail(keys), config))

calculateXScore(activities, config) ==
  LET keys    == DateKeys(activities)
      counted == Counted(activities, keys, config)
      total   == RoundToCents(TotalScore(activities, keys, config))
      CountOf(Test(_)) == Len(SelectSeq(counted, Test))
  IN  [ totalScore  |-> total,
        socialScore |-> total,
        metrics |->
          [ posts |->
              [ total    |-> Len(activities),
                original |-> CountOf(LAMBDA a : a.activityType = "post"),
                quotes   |-> CountOf(LAMBDA a : a.activityType = "quote"),
                replies  |-> CountOf(LAMBDA a : a.activityType = "reply"),
                reposts  |-> CountOf(LAMBDA a : a.activityType = "repost") ],
            engagement |->
              [ totalMentions |-> CountOf(LAMBDA a : a.mentionsSendoMarket),
                withHashtag   |-> CountOf(LAMBDA a :
                                    Includes(ParseHashtags(a.hashtagsUsed), "sendo")),
                withMedia     |-> CountOf(LAMBDA a : a.mediaCount > 0) ] ] ]

(***************************************************************************)
(* The posts stored and scored.                                            *)
(***************************************************************************)
XPost(id, flags, mention, tags, media, createdAt) ==
  [ id            |-> id,
    text          |-> "gm",
    authorId      |-> "x1",
    createdAt     |-> createdAt,
    likesCount    |-> 0,
    repostsCount  |-> 0,
    repliesCount  |-> 0,
    quotesCount   |-> 0,
    viewsCount    |-> 0,
    isRetweet     |-> flags[2],
    isQuote       |-> flags[3],
    isReply       |-> flags[1],
    hashtags      |-> tags,
    mentions      |-> IF mention THEN << [username |-> "sendomarket", id |-> "x0"] >>
                                 ELSE <<>>,
    mediaCount    |-> media ]

NoFlags == << FALSE, FALSE, FALSE >>
\* (isReply, isRetweet, isQuote) in every combination
FlagValues == { << r, t, q >> : r \in BOOLEAN, t \in BOOLEAN, q \in BOOLEAN }

PlainPost == XPost("a1", NoFlags, FALSE, <<>>, 0, 0)
MentionPost == XPost("a2", NoFlags, TRUE, <<>>, 0, 0)
HashtagPost == XPost("a3", NoFlags, TRUE, << "sendo" >>, 0, 1)
MediaPost == XPost("a4", NoFlags, TRUE, << "sendo" >>, 1, 1)

\* posts with a flag set: a quote, reply or repost of the first instant
\* that mentions, uses the hashtag and has media, and plain ones a day later
ScorePosts ==
  { PlainPost, MentionPost, HashtagPost, MediaPost }
  \cup { XPost("b1", f, TRUE, << "sendo" >>, 1, 0) : f \in { << FALSE, FALSE, TRUE >> } }
  \cup { XPost("b2", f, FALSE, <<>>, 0, 2) : f \in { g \in FlagValues : g[1] } }
  \cup { XPost("b3", f, FALSE, <<>>, 1, 3) : f \in { g \in FlagValues : ~g[1] /\ g[2] } }

NoPost == [ none |-> TRUE ]

\* storeXActivity has written the row of a post of the contributor, and the
\* rows are what getContributorXActivities hands to calculateXScore
StoreForScore(post) ==
  /\ xsResult = NoScore
  /\ Len(xsActivities) < MaxActivities
  /\ xsActivities' = Append(xsActivities, NewActivityRow(post, "u1", 0))
  /\ xsStored' = post
  /\ UNCHANGED << xsConfig, xsResult, orchVars, scanVars, codecVars, clientVars, callbackVars >>

CalculateXScore(config) ==
  /\ xsResult = NoScore
  /\ xsResult' = calculateXScore(xsActivities, config)
  /\ xsConfig' = config
  /\ xsStored' = NoPost
  /\ UNCHANGED << xsActivities, orchVars, scanVars, codecVars, clientVars, callbackVars >>

NextScore ==
  \/ \E post \in ScorePosts : StoreForScore(post)
  \/ \E config \in ScoringConfigs : CalculateXScore(config)

SpecScore == Init /\ [][NextScore]_vars

(***************************************************************************)
(* Properties of the README codec.                                         *)
(***************************************************************************)
\* the accounts generateUpdatedReadmeWithXInfo accepted, in call order
Written == SelectSeq(upserted, ValidXAccount)

\* the text holds the token of a sentinel inside one of its fields
HoldsSentinel(account) ==
  \E i \in DOMAIN AccountFieldNames :
    \E j \in DOMAIN account[AccountFieldNames[i]] :
      account[AccountFieldNames[i]][j] \in { X_SECTION_BEGIN_MARKER, X_SECTION_END_MARKER }

\* C22: an empty README that received one valid account reads back as that
\* account: handle, X user id, linkedAt and proof are the ones written.
C22_RoundTripFromEmpty ==
  (baseReadme = <<>> /\ Len(upserted) = 1 /\ ValidXAccount(upserted[1]))
  => /\ parseXLinkingDataFromReadme(readmeText) # NullData
     /\ parseXLinkingDataFromReadme(readmeText).xAccount = upserted[1]

\* occurrences of a token in a text
Occurrences(text, token) == Cardinality({ i \in DOMAIN text : text[i] = token })

\* C23: whatever the README was, sentinels included, after the same valid
\* account was written twice the text holds exactly one begin and exactly
\* one end sentinel and reads back as that account.
C23_UpsertTwiceOnePair ==
  (Len(upserted) = 2 /\ upserted[1] = upserted[2] /\ ValidXAccount(upserted[1]))
  => /\ Occurrences(readmeText, X_SECTION_BEGIN_MARKER) = 1
     /\ Occurrences(readmeText, X_SECTION_END_MARKER) = 1
     /\ parseXLinkingDataFromReadme(readmeText) # NullData
     /\ parseXLinkingDataFromReadme(readmeText).xAccount = upserted[1]

\* the text holds one claim section and nothing else of a sentinel
SingleSection(text) ==
  /\ Occurrences(text, X_SECTION_BEGIN_MARKER) = 1
  /\ Occurrences(text, X_SECTION_END_MARKER) = 1

\* C24: a README that holds the claim section of one account and then
\* receives another valid account reads back as exactly the new account and
\* still holds a single claim section.
C24_ReplaceOtherAccount ==
  (/\ Len(upserted) = 1 /\ ValidXAccount(upserted[1])
   /\ SingleSection(baseReadme)
   /\ parseXLinkingDataFromReadme(baseReadme) # NullData
   /\ parseXLinkingDataFromReadme(baseReadme).xAccount # upserted[1])
  => /\ SingleSection(readmeText)
     /\ parseXLinkingDataFromReadme(readmeText) # NullData
     /\ parseXLinkingDataFromReadme(readmeText).xAccount = upserted[1]

\* the text between the first begin sentinel and the first end sentinel
\* behind it, when the text has both in that order
SectionContent(text) ==
  LET b == SetMin({ i \in DOMAIN text : text[i] = X_SECTION_BEGIN_MARKER })
      e == SetMin({ i \in DOMAIN text : text[i] = X_SECTION_END_MARKER })
  IN  Trim(SubSeq(text, b + 1, e - 1))

NoBeginSentinel(text) == \A i \in DOMAIN text : text[i] # X_SECTION_BEGIN_MARKER
NoEndSentinel(text) == \A i \in DOMAIN text : text[i] # X_SECTION_END_MARKER
\* some end sentinel has no begin sentinel before it
EndNotAfterBegin(text) ==
  \E i \in DOMAIN text :
    /\ text[i] = X_SECTION_END_MARKER
    /\ \A j \in 1..(i - 1) : text[j] # X_SECTION_BEGIN_MARKER
Delimited(text) ==
  ~NoBeginSentinel(text) /\ ~NoEndSentinel(text) /\ ~EndNotAfterBegin(text)
NotJson(text) == Delimited(text) /\ JsonParse(SectionContent(text)) = SyntaxError
FailsSchema(text) ==
  /\ Delimited(text)
  /\ JsonParse(SectionContent(text)) # SyntaxError
  /\ ~ValidXLinkingData(JsonParse(SectionContent(text)))

\* C25: a README without begin sentinel, without end sentinel, with its
\* first end sentinel not behind its first begin sentinel, with a section
\* that is not JSON or with a JSON section the schema rejects reads as
\* absent: parseXLinkingDataFromReadme returns null and raises nothing.
C25_UnreadableIsAbsent ==
  (\/ NoBeginSentinel(readmeText)
   \/ NoEndSentinel(readmeText)
   \/ EndNotAfterBegin(readmeText)
   \/ NotJson(readmeText)
   \/ FailsSchema(readmeText))
  => parseXLinkingDataFromReadme(readmeText) = NullData

\* a README whose section was cut short by a call and no longer parses
C25_Witness ==
  /\ Len(upserted) >= 1
  /\ generated # ZodError
  /\ NotJson(readmeText)
  /\ parseXLinkingDataFromReadme(readmeText) = NullData

\* the text has a token that is not whitespace
HasText(text) == \E i \in DOMAIN text : text[i] \notin Whitespace

\* the section the last call wrote
WrittenSection == XSection(generated.xData)

\* C26 as claimed: a README without a sentinel pair that received a valid
\* account is the old text, then a blank line if the old text was not
\* empty and did not end with a newline and nothing otherwise, then the
\* claim section.
C26_AppendKeepsText ==
  (Len(upserted) = 1 /\ ValidXAccount(upserted[1]) /\ ~Delimited(baseReadme))
  => readmeText =
       baseReadme
         \o (IF baseReadme # <<>> /\ ~EndsWith(baseReadme, Newline)
             THEN << Newline, Newline >> ELSE <<>>)
         \o WrittenSection

\* C26 as amended: a README without a sentinel pair that received a valid
\* account is the old text without its leading and trailing whitespace,
\* then a separator, then the claim section; the separator is a blank line
\* if the old text has text and does not end with a newline, one newline if
\* it has text and ends with a newline, and nothing if it has no text.
C26_AppendTrimmedText ==
  (Len(upserted) = 1 /\ ValidXAccount(upserted[1]) /\ ~Delimited(baseReadme))
  => readmeText =
       Trim(baseReadme)
         \o (IF ~HasText(baseReadme) THEN <<>>
             ELSE IF baseReadme[Len(baseReadme)] = Newline THEN << Newline >>
             ELSE << Newline, Newline >>)
         \o WrittenSection

\* a text that ends with a newline received an account
C26_Witness ==
  /\ Len(upserted) = 1 /\ ValidXAccount(upserted[1])
  /\ ~Delimited(baseReadme)
  /\ HasText(baseReadme)
  /\ baseReadme[Len(baseReadme)] = Newline
  /\ readmeText = Trim(baseReadme) \o << Newline >> \o WrittenSection

(***************************************************************************)
(* Properties of classification and scoring.                               *)
(***************************************************************************)
\* the row storeXActivity wrote last
LastRow == xsActivities[Len(xsActivities)]

\* C27: the type written for a post is one of the four types and follows
\* the precedence reply > repost > quote > post over every combination of
\* the three flags: "reply" exactly for a reply, "repost" exactly for a
\* repost that is no reply, "quote" exactly for a quote that is neither, and
\* "post" exactly when no flag is set.
C27_ClassificationPrecedence ==
  xsStored # NoPost =>
    LET type == LastRow.activityType
    IN  /\ type \in { "reply", "repost", "quote", "post" }
        /\ type = "reply" <=> xsStored.isReply
        /\ type = "repost" <=> (~xsStored.isReply /\ xsStored.isRetweet)
        /\ type = "quote" <=>
             (~xsStored.isReply /\ ~xsStored.isRetweet /\ xsStored.isQuote)
        /\ type = "post" <=>
             (~xsStored.isReply /\ ~xsStored.isRetweet /\ ~xsStored.isQuote)

\* a post flagged reply and repost was stored as a reply
C27_Witness ==
  /\ xsStored # NoPost
  /\ xsStored.isReply /\ xsStored.isRetweet
  /\ LastRow.activityType = "reply"

\* calculateXScore has returned
Scored == xsResult # NoScore

\* base points and multipliers of the config are not negative
NonNegativeConfig(config) ==
  /\ \A type \in { "post", "quote", "reply", "repost" } :
       LessEq(Whole(0), config[type].base)
  /\ LessEq(Whole(0), config.post.mentionsSendoMarket)
  /\ LessEq(Whole(0), config.post.usesHashtag)
  /\ LessEq(Whole(0), config.post.hasMedia)
  /\ LessEq(Whole(0), config.daily.diminishingReturnsPenalty)

\* the UTC days of the scored activities
ScoredDays == { xsActivities[i].createdAt \div TicksPerDay : i \in DOMAIN xsActivities }
OfDay(day) == SelectSeq(xsActivities, LAMBDA a : a.createdAt \div TicksPerDay = day)

\* every day contributes between 0 and maxPointsPerDay
DaysWithinCap ==
  \A day \in ScoredDays :
    /\ LessEq(Whole(0), DayScore(OfDay(day), xsConfig))
    /\ LessEq(DayScore(OfDay(day), xsConfig), xsConfig.daily.maxPointsPerDay)

\* (number of distinct days) x maxPointsPerDay
CapOfDays == Times(Whole(Cardinality(ScoredDays)), xsConfig.daily.maxPointsPerDay)

\* C28 as claimed: under a config without negative base points or
\* multipliers every day contributes between 0 and maxPointsPerDay and the
\* returned totalScore lies between 0 and days x maxPointsPerDay.
C28_TotalWithinDailyCaps ==
  (Scored /\ NonNegativeConfig(xsConfig))
  => /\ DaysWithinCap
     /\ LessEq(Whole(0), xsResult.totalScore)
     /\ LessEq(xsResult.totalScore, CapOfDays)

\* C28 as amended: under such a config whose maxPointsPerDay is not
\* negative either, every day contributes between 0 and maxPointsPerDay to
\* the sum, and the returned totalScore, the sum rounded to two decimals,
\* lies between 0 and days x maxPointsPerDay rounded to two decimals, which
\* is days x maxPointsPerDay itself when that product has no more than two
\* decimals.
C28_TotalWithinRoundedCaps ==
  (/\ Scored /\ NonNegativeConfig(xsConfig)
   /\ LessEq(Whole(0), xsConfig.daily.maxPointsPerDay))
  => /\ DaysWithinCap
     /\ LessEq(Whole(0), xsResult.totalScore)
     /\ LessEq(xsResult.totalScore, RoundToCents(CapOfDays))
     /\ (100 % CapOfDays.d = 0 => LessEq(xsResult.totalScore, CapOfDays))

\* two days were scored and the cap cut the sum of one of them
C28_Witness ==
  /\ Scored /\ NonNegativeConfig(xsConfig)
  /\ Cardinality(ScoredDays) = 2
  /\ \E day \in ScoredDays :
       ~LessEq(DayScoreUncapped(OfDay(day), xsConfig), xsConfig.daily.maxPointsPerDay)
  /\ LessEq(xsResult.totalScore, RoundToCents(CapOfDays))

\* the contribution of an activity without any penalty
Unpenalised(activity, config) ==
  IF activity.activityType = "post"
  THEN Times(config.post.base, PostMultiplier(activity, config))
  ELSE config[activity.activityType].base

\* 0 <= penalty < 1
PenaltyBelowOne(config) ==
  /\ LessEq(Whole(0), config.daily.diminishingReturnsPenalty)
  /\ ~LessEq(Whole(1), config.daily.diminishingReturnsPenalty)

\* a later position never pays more, and no position up to the threshold
\* is penalised
NeverPaysMoreLater ==
  \A i \in DOMAIN xsActivities : \A p \in 1..MaxActivities :
    /\ LessEq(calculateActivityScore(xsActivities[i], xsConfig, p + 1),
              calculateActivityScore(xsActivities[i], xsConfig, p))
    /\ p <= xsConfig.daily.diminishingReturnsThreshold
         => calculateActivityScore(xsActivities[i], xsConfig, p)
              = Unpenalised(xsActivities[i], xsConfig)

\* C29 as claimed: under a config with 0 <= penalty < 1 an activity
\* contributes at position p + 1 no more than at position p, for every
\* p >= 1, and is not penalised at a position up to the threshold.
C29_LaterNeverMore ==
  (Scored /\ PenaltyBelowOne(xsConfig)) => NeverPaysMoreLater

\* C29 as amended: the same under a config with 0 <= penalty < 1 whose
\* base points and multipliers are not negative.
C29_LaterNeverMoreNonNegative ==
  (Scored /\ PenaltyBelowOne(xsConfig) /\ NonNegativeConfig(xsConfig))
  => NeverPaysMoreLater

\* a day was scored beyond the threshold and its last activity was paid
\* less than it would have been one position earlier
C29_Witness ==
  /\ Scored /\ PenaltyBelowOne(xsConfig) /\ NonNegativeConfig(xsConfig)
  /\ \E day \in ScoredDays :
       LET capped == CappedActivities(OfDay(day), xsConfig)
           n      == Len(capped)
       IN  /\ n > xsConfig.daily.diminishingReturnsThreshold
           /\ ~LessEq(calculateActivityScore(capped[n], xsConfig, n - 1),
                      calculateActivityScore(capped[n], xsConfig, n))

\* the four posts of one day in time order: plain, with the mention, with
\* mention and hashtag, with mention, hashtag and media
FourPosts ==
  << NewActivityRow(PlainPost, "u1", 0), NewActivityRow(MentionPost, "u1", 0),
     NewActivityRow(HashtagPost, "u1", 0), NewActivityRow(MediaPost, "u1", 0) >>

\* C30: under the reference configuration the four posts contribute 5,
\* 7.5, 8.25 and 6.93 (the fourth after one step of 0.7), their sum is
\* 27.68 and the returned totalScore is the cap, 25.
C30_ReferenceFixture ==
  (Scored /\ xsConfig = DEFAULT_X_SCORING /\ xsActivities = FourPosts)
  => /\ ActivityScores(xsActivities, xsConfig)
          = << Whole(5), Num(75, 10), Num(825, 100), Num(693, 100) >>
     /\ Sum(ActivityScores(xsActivities, xsConfig)) = Num(2768, 100)
     /\ xsResult.totalScore = Whole(25)

\* the four posts were scored under the reference configuration
C30_Witness ==
  /\ Scored /\ xsConfig = DEFAULT_X_SCORING /\ xsActivities = FourPosts
  /\ Cardinality(ScoredDays) = 1
  /\ xsResult.totalScore = Whole(25)
  /\ xsResult.metrics.posts.original = 4

\* the activities the score was computed from: each day's earliest
\* maxPosts
ScoredSet == Counted(xsActivities, DateKeys(xsActivities), xsConfig)

\* C31: every metric of the result counts the activities the score was
\* computed from, the ones that survive the truncation of each day to
\* maxPosts: the total is their number and equals the sum of the four
\* per-type counts, and the mention, hashtag and media counts are taken
\* over them.
C31_MetricsOverScoredSet ==
  Scored =>
    LET posts      == xsResult.metrics.posts
        engagement == xsResult.metrics.engagement
    IN  /\ posts.total = Len(ScoredSet)
        /\ posts.total = posts.original + posts.quotes + posts.replies + posts.reposts
        /\ engagement.totalMentions
             = Len(SelectSeq(ScoredSet, LAMBDA a : a.mentionsSendoMarket))
        /\ engagement.withMedia = Len(SelectSeq(ScoredSet, LAMBDA a : a.mediaCount > 0))

\* the UTC day of the activity at index i
DayOf(i) == xsActivities[i].createdAt \div TicksPerDay

\* how many activities of the same day come before the one at index i:
\* the earlier ones and, among those of the same instant, the ones handed
\* over before it
RankInDay(i) ==
  Cardinality({ j \in DOMAIN xsActivities :
                  /\ DayOf(j) = DayOf(i)
                  /\ \/ xsActivities[j].createdAt < xsActivities[i].createdAt
                     \/ /\ xsActivities[j].createdAt = xsActivities[i].createdAt
                        /\ j < i })

\* what the first n activities pay into a day: each of the maxPosts
\* earliest of the day at its 1-based position within the day
RECURSIVE PaidInto(_, _)
PaidInto(day, n) ==
  IF n = 0 THEN Whole(0)
  ELSE IF DayOf(n) = day /\ RankInDay(n) < xsConfig.daily.maxPosts
  THEN Plus(PaidInto(day, n - 1),
            calculateActivityScore(xsActivities[n], xsConfig, RankInDay(n) + 1))
  ELSE PaidInto(day, n - 1)

\* the contribution of a day: what is paid into it, at most maxPointsPerDay
DayContribution(day) ==
  MathMin(PaidInto(day, Len(xsActivities)), xsConfig.daily.maxPointsPerDay)

RECURSIVE SumOfDays(_)
SumOfDays(days) ==
  IF days = {} THEN Whole(0)
  ELSE LET day == CHOOSE d \in days : \A e \in days : d <= e
       IN  Plus(DayContribution(day), SumOfDays(days \ { day }))

\* the activities without the one at index i
Without(i) == SubSeq(xsActivities, 1, i - 1) \o SubSeq(xsActivities, i + 1, Len(xsActivities))

\* C32: activities are grouped by the UTC day of createdAt; in each day
\* only the maxPosts earliest contribute, each at its 1-based position
\* within that day; the total is the rounded sum of the days'
\* contributions; and taking an activity of one day away (or adding it)
\* leaves the contribution of every other day as it was.
C32_DaysScoredApart ==
  Scored =>
    /\ \A day \in ScoredDays : DayScore(OfDay(day), xsConfig) = DayContribution(day)
    /\ xsResult.totalScore = RoundToCents(SumOfDays(ScoredDays))
    /\ \A i \in DOMAIN xsActivities : \A day \in ScoredDays \ { DayOf(i) } :
         DayScore(DayActivities(Without(i), day), xsConfig) = DayContribution(day)

\* two days were scored, one of them with more activities than maxPosts
\* that were not handed over in time order
C32_Witness ==
  /\ Scored
  /\ Cardinality(ScoredDays) = 2
  /\ \E i, j \in DOMAIN xsActivities :
       /\ i < j /\ DayOf(i) = DayOf(j)
       /\ xsActivities[j].createdAt < xsActivities[i].createdAt
       /\ Len(OfDay(DayOf(i))) > xsConfig.daily.maxPosts
       /\ RankInDay(i) >= xsConfig.daily.maxPosts
  /\ xsResult.totalScore = RoundToCents(SumOfDays(ScoredDays))

\* the multipliers that apply to an activity, whatever its type
ApplicableMultipliers(activity, config) ==
  (IF activity.mentionsSendoMarket THEN << config.post.mentionsSendoMarket >> ELSE <<>>)
  \o (IF activity.hashtagsUsed = JsonStringify(<< "sendo" >>)
      THEN << config.post.usesHashtag >> ELSE <<>>)
  \o (IF activity.mediaCount > 0 THEN << config.post.hasMedia >> ELSE <<>>)

RECURSIVE Product(_)
Product(factors) ==
  IF factors = <<>> THEN Whole(1) ELSE Times(factors[1], Product(Tail(factors)))

\* base(type) x M x penalty^max(0, p - threshold), with M = 1 for an
\* activity that is no "post"
ClaimedContribution(activity, config, p) ==
  LET M    == IF activity.activityType = "post"
              THEN Product(ApplicableMultipliers(activity, config))
              ELSE Whole(1)
      over == IF p > config.daily.diminishingReturnsThreshold
              THEN p - config.daily.diminishingReturnsThreshold ELSE 0
  IN  Times(Times(config[activity.activityType].base, M),
            MathPow(config.daily.diminishingReturnsPenalty, over))

\* C33: the activity at position p of a day contributes
\* base(type) x M x penalty^max(0, p - threshold), where M is the product
\* of the mention, hashtag and media multipliers that apply when the type
\* is "post" and 1 for a quote, reply or repost, also for one that
\* mentions the handle, uses the hashtag or has media; the penalty applies
\* to all four types.
C33_ContributionFormula ==
  Scored =>
    \A day \in ScoredDays :
      LET capped == CappedActivities(OfDay(day), xsConfig)
          scores == ActivityScores(OfDay(day), xsConfig)
      IN  \A p \in DOMAIN capped :
            scores[p] = ClaimedContribution(capped[p], xsConfig, p)

\* a quote that mentions the handle, uses the hashtag and has media was
\* paid the bare base of a quote, and an activity that is no post was paid
\* beyond the threshold, with the penalty
C33_Witness ==
  /\ Scored
  /\ \E day \in ScoredDays :
       LET capped == CappedActivities(OfDay(day), xsConfig)
           scores == ActivityScores(OfDay(day), xsConfig)
       IN  /\ \E p \in DOMAIN capped :
                /\ capped[p].activityType = "quote"
                /\ Len(ApplicableMultipliers(capped[p], xsConfig)) = 3
                /\ p <= xsConfig.daily.diminishingReturnsThreshold
                /\ scores[p] = xsConfig.quote.base
           /\ \E p \in DOMAIN capped :
                /\ capped[p].activityType # "post"
                /\ p > xsConfig.daily.diminishingReturnsThreshold
                /\ scores[p] # xsConfig[capped[p].activityType].base

\* the posts the persisting loop of a run has been through
HandledSoFar(r) == SubSeq(allPosts[r], 1, idx[r] - 1)

\* startDate <= createdAt <= endDate
InWindow(post, range) == range[1] <= post.createdAt /\ post.createdAt <= range[2]

\* the handled posts of linked authors that lie in the window of the run
DueInWindow(r) ==
  SelectSeq(HandledSoFar(r),
            LAMBDA post : ~Unlinked(post, linkedAccounts[r]) /\ InWindow(post, dateRange[r]))

\* C34: in a run with a window [startDate, endDate], a post of a linked
\* author is persisted if and only if startDate <= createdAt <= endDate,
\* bounds included: the run has written exactly the handled posts of linked
\* authors inside the window and counted every other handled post as
\* skipped, and the step over a post outside the window leaves the
\* activity store as it is.
C34_WindowFilter ==
  /\ [](\A r \in Slots :
          dateRange[r] # NoRange =>
            /\ writes[r] = [ i \in DOMAIN DueInWindow(r) |-> DueInWindow(r)[i].id ]
            /\ storedCount[r] = Len(DueInWindow(r))
            /\ skippedCount[r] = Len(HandledSoFar(r)) - Len(DueInWindow(r)))
  /\ [][ \A r \in Slots :
           (LoopStep(r) /\ dateRange[r] # NoRange
              /\ ~InWindow(Handled(r), dateRange[r]))
           => /\ xActivities' = xActivities
              /\ skippedCount'[r] = skippedCount[r] + 1 ]_vars

\* a run with a window whose bounds differ is done: it wrote a post of a
\* linked author dated on a bound and skipped one dated outside
C34_Witness ==
  \E r \in Slots :
    /\ pc[r] = "done" /\ dateRange[r] # NoRange /\ dateRange[r][1] < dateRange[r][2]
    /\ Len(allPosts[r]) = 2
    /\ \E i, j \in DOMAIN allPosts[r] :
         /\ ~Unlinked(allPosts[r][i], linkedAccounts[r])
         /\ allPosts[r][i].createdAt \in { dateRange[r][1], dateRange[r][2] }
         /\ \E row \in xActivities : row.id = allPosts[r][i].id
         /\ ~Unlinked(allPosts[r][j], linkedAccounts[r])
         /\ ~InWindow(allPosts[r][j], dateRange[r])
    /\ result[r].count = 1 /\ result[r].skipped = 1

(***************************************************************************)
(* XApiClient.makeRequest: fetch under an AbortController whose timer is   *)
(* cleared as soon as fetch resolves, then response.json(), then the test  *)
(* of response.ok.                                                         *)
(***************************************************************************)
MaxTicks == 3          \* ticks of the clock followed for one request
\* this.timeout, in ticks
TimeoutTicks == 2

\* response bodies: a JSON object given by its members in order, the JSON
\* value null, or text that is no JSON
JsonBody(members) == [ kind |-> "object", members |-> members ]
JsonNull == [ kind |-> "null" ]
NotJsonBody == [ kind |-> "text" ]
ResponseBodies ==
  { JsonBody(<< << "error", "rate limited" >> >>),
    JsonBody(<< << "message", "not found" >> >>),
    JsonBody(<< << "error", "" >>, << "message", "busy" >> >>),
    JsonBody(<< << "status", "fail" >> >>),
    JsonBody(<<>>),
    JsonNull,
    NotJsonBody }
ResponseStatuses == { 200, 404, 502 }

\* response.ok
ResponseOk(status) == status \in 200..299

\* data[key] of a parsed object
RECURSIVE Property(_, _)
Property(members, key) ==
  IF members = <<>> THEN Undefined
  ELSE IF members[Len(members)][1] = key THEN members[Len(members)][2]
  ELSE Property(SubSeq(members, 1, Len(members) - 1), key)

\* JSON.stringify of an object with string values
StringifyObject(members) ==
  LET RECURSIVE JoinMembers(_)
      JoinMembers(ms) ==
        LET first == "\"" \o ms[1][1] \o "\":\"" \o ms[1][2] \o "\""
        IN  IF ms = <<>> THEN ""
            ELSE IF Len(ms) = 1 THEN first
            ELSE first \o "," \o JoinMembers(Tail(ms))
  IN  "{" \o JoinMembers(members) \o "}"

\* data.error || data.message || JSON.stringify(data): undefined and ""
\* are falsy
ErrorDetail(members) ==
  LET OrElse(a, b) == IF a = Undefined \/ a = "" THEN b ELSE a
  IN  OrElse(Property(members, "error"),
             OrElse(Property(members, "message"), StringifyObject(members)))

Thrown(name, message) == [ threw |-> TRUE, name |-> name, message |-> message ]
Returned(data) == [ threw |-> FALSE, data |-> data ]

\* new Error(`twitterapi.io error (${response.status}): ${...}`)
UpstreamFailure(status, detail) ==
  Thrown("Error", "twitterapi.io error (" \o ToString(status) \o "): " \o detail)
\* new Error(`twitterapi.io request timeout after ${this.timeout}ms`)
TimeoutFailure ==
  Thrown("Error", "twitterapi.io request timeout after " \o ToString(TimeoutTicks) \o "ms")

\* const data = await response.json(); if (!response.ok) throw ...;
\* return data: what the call settles with once the body is in
SettleBody(response) ==
  IF response.body.kind = "text"
  THEN Thrown("SyntaxError", "Unexpected token < in JSON")
  ELSE IF ResponseOk(response.status) THEN Returned(response.body)
  ELSE IF response.body.kind = "null"
  THEN Thrown("TypeError", "Cannot read properties of null (reading 'error')")
  ELSE UpstreamFailure(response.status, ErrorDetail(response.body.members))

\* the call: setTimeout(() => controller.abort(), this.timeout); fetch(...)
MakeRequest ==
  /\ rqPc = "idle"
  /\ rqPc' = "fetch"
  /\ rqTimer' = TRUE
  /\ UNCHANGED << rqClock, rqResponse, rqOutcome, nzRaw, nzResult,
                  orchVars, scanVars, codecVars, scoreVars, callbackVars >>

\* time passes while the call is pending; an armed timer fires when due
Tick ==
  /\ rqPc \in { "fetch", "body" }
  /\ rqClock < MaxTicks
  /\ ~(rqTimer /\ rqClock >= TimeoutTicks)
  /\ rqClock' = rqClock + 1
  /\ UNCHANGED << rqPc, rqTimer, rqResponse, rqOutcome, nzRaw, nzResult,
                  orchVars, scanVars, codecVars, scoreVars, callbackVars >>

\* the timer fires: controller.abort(), fetch rejects with an AbortError,
\* the catch block throws the timeout error
Abort ==
  /\ rqPc = "fetch"
  /\ rqTimer /\ rqClock >= TimeoutTicks
  /\ rqPc' = "settled"
  /\ rqTimer' = FALSE
  /\ rqOutcome' = TimeoutFailure
  /\ UNCHANGED << rqClock, rqResponse, nzRaw, nzResult,
                  orchVars, scanVars, codecVars, scoreVars, callbackVars >>

\* fetch resolves with the status line and headers: clearTimeout(timeoutId)
FetchResolves(status, body) ==
  /\ rqPc = "fetch"
  /\ rqPc' = "body"
  /\ rqTimer' = FALSE
  /\ rqResponse' = [ status |-> status, body |-> body ]
  /\ UNCHANGED << rqClock, rqOutcome, nzRaw, nzResult,
                  orchVars, scanVars, codecVars, scoreVars, callbackVars >>

\* fetch rejects (no connection): the catch block rethrows
FetchRejects ==
  /\ rqPc = "fetch"
  /\ rqPc' = "settled"
  /\ rqTimer' = FALSE
  /\ rqOutcome' = Thrown("TypeError", "fetch failed")
  /\ UNCHANGED << rqClock, rqResponse, nzRaw, nzResult,
                  orchVars, scanVars, codecVars, scoreVars, callbackVars >>

\* the body is in and response.json() settles
ReadBody ==
  /\ rqPc = "body"
  /\ rqPc' = "settled"
  /\ rqOutcome' = SettleBody(rqResponse)
  /\ UNCHANGED << rqClock, rqTimer, rqResponse, nzRaw, nzResult,
                  orchVars, scanVars, codecVars, scoreVars, callbackVars >>

NextRequest ==
  \/ MakeRequest
  \/ Tick
  \/ Abort
  \/ \E status \in ResponseStatuses, body \in ResponseBodies : FetchResolves(status, body)
  \/ FetchRejects
  \/ ReadBody

SpecRequest == Init /\ [][NextRequest]_vars

(***************************************************************************)
(* Properties of makeRequest.                                              *)
(***************************************************************************)
\* the call has settled on a response that is not 2xx
SettledNotOk ==
  /\ rqPc = "settled" /\ rqResponse # NoResponse
  /\ ~ResponseOk(rqResponse.status)

\* the messages a body may be reported with
BodyDetails ==
  { "", "<html>" }
    \cup { ErrorDetail(body.members) : body \in { b \in ResponseBodies : b.kind = "object" } }
    \cup { "null" }

\* an upstream error that carries the status and a message from the body
UpstreamFailures(response) ==
  IF response.body.kind = "object"
  THEN { UpstreamFailure(response.status, ErrorDetail(response.body.members)) }
  ELSE { UpstreamFailure(response.status, detail) : detail \in BodyDetails }

\* C35: a request that exceeds the timeout fails with the timeout failure,
\* which differs from every upstream error; a response that is not 2xx
\* fails with an upstream error that carries the HTTP status and a
\* best-effort message from the body, whatever the body: JSON with error,
\* JSON with message, other JSON, or no JSON.
C35_TimeoutAndUpstreamFailures ==
  /\ rqClock > TimeoutTicks => (rqPc = "settled" /\ rqOutcome = TimeoutFailure)
  /\ rqOutcome = TimeoutFailure => rqResponse = NoResponse
  /\ SettledNotOk => rqOutcome \in UpstreamFailures(rqResponse)

(***************************************************************************)
(* normalizeXPost, for the flat and for the nested (legacy) shape of a raw *)
(* post.  A raw post is a record that may lack fields.                     *)
(***************************************************************************)
\* undefined where a number is expected
NoNumber == -1

\* post[field] of a numeric field
NumberOf(obj, field) == IF field \in DOMAIN obj THEN obj[field] ELSE NoNumber
\* x || 0
OrZero(x) == IF x = NoNumber \/ x = 0 THEN 0 ELSE x
\* parseInt(s, 10) of a string of one digit
ParseInt(s) == CHOOSE n \in 0..9 : ToString(n) = s
\* new Date(twitterDate).toISOString(): the instant of a date in the
\* format of Twitter
parseTwitterDate(twitterDate) == twitterDate.instant
\* String.prototype.toLowerCase
ToLowerCase(s) == CASE s = "Sendo" -> "sendo" [] s = "SendoMarket" -> "sendomarket"
                    [] OTHER -> s
\* entities.hashtags.map((h) => h.text.toLowerCase())
HashtagTexts(hashtags) == [ i \in DOMAIN hashtags |-> ToLowerCase(hashtags[i].text) ]
\* entities.user_mentions.map((m) => ({username: ..., id: m.id_str}))
MentionsOf(user_mentions) ==
  [ i \in DOMAIN user_mentions |->
      [ username |-> ToLowerCase(user_mentions[i].screen_name),
        id       |-> user_mentions[i].id_str ] ]

\* a raw post of the flat shape with every field
FlatPost ==
  [ id |-> "p1", text |-> "gm", createdAt |-> [ format |-> "twitter", instant |-> 1 ],
    likeCount |-> 3, retweetCount |-> 2, replyCount |-> 1, quoteCount |-> 4,
    bookmarkCount |-> 5, viewCount |-> 7, isReply |-> FALSE,
    hashtags |-> << [ text |-> "Sendo" ] >>,
    user_mentions |-> << [ screen_name |-> "SendoMarket", id_str |-> "x0" ] >>,
    media |-> << "photo" >>,
    retweeted_tweet |-> [ null |-> TRUE ], quoted_tweet |-> [ id |-> "p0" ],
    author |-> [ id |-> "x1", userName |-> "h1", name |-> "Ann" ] ]
\* the fields a raw post of the flat shape may lack
FlatMayLack ==
  { "likeCount", "retweetCount", "replyCount", "quoteCount", "bookmarkCount",
    "viewCount", "media", "author" }

\* a raw post of the nested shape with every field: legacy.*, core, views
LegacyPost ==
  [ rest_id |-> "p1", full_text |-> "gm",
    created_at |-> [ format |-> "twitter", instant |-> 1 ],
    favorite_count |-> 3, retweet_count |-> 2, reply_count |-> 1, quote_count |-> 4,
    bookmark_count |-> 5, views |-> [ count |-> "7" ],
    hashtags |-> << [ text |-> "Sendo" ] >>,
    user_mentions |-> << [ screen_name |-> "SendoMarket", id_str |-> "x0" ] >>,
    media |-> << "photo" >>,
    quoted_status_id_str |-> "p0",
    core |-> [ rest_id |-> "x1", screen_name |-> "h1", name |-> "Ann" ] ]
LegacyMayLack ==
  { "favorite_count", "retweet_count", "reply_count", "quote_count",
    "bookmark_count", "views", "media", "core" }

\* the raw post without some of its fields
Lacking(post, fields) == [ f \in DOMAIN post \ fields |-> post[f] ]
RawPosts ==
  { [ shape |-> "flat", post |-> Lacking(FlatPost, fields) ] : fields \in SUBSET FlatMayLack }
  \cup { [ shape |-> "legacy", post |-> Lacking(LegacyPost, fields) ] :
           fields \in SUBSET LegacyMayLack }

\* normalizeXPost of the flat shape
normalizeXPostFlat(post) ==
  IF "author" \notin DOMAIN post
  THEN Thrown("TypeError", "Cannot read properties of undefined (reading 'id')")
  ELSE [ id             |-> post.id,
         text           |-> post.text,
         authorId       |-> post.author.id,
         authorUsername |-> post.author.userName,
         authorName     |-> post.author.name,
         createdAt      |-> parseTwitterDate(post.createdAt),
         likesCount     |-> NumberOf(post, "likeCount"),
         repostsCount   |-> NumberOf(post, "retweetCount"),
         repliesCount   |-> OrZero(NumberOf(post, "replyCount")),
         quotesCount    |-> OrZero(NumberOf(post, "quoteCount")),
         viewsCount     |-> OrZero(NumberOf(post, "viewCount")),
         bookmarksCount |-> OrZero(NumberOf(post, "bookmarkCount")),
         isRetweet      |-> post.retweeted_tweet # [ null |-> TRUE ],
         isQuote        |-> post.quoted_tweet # [ null |-> TRUE ],
         isReply        |-> post.isReply,
         hashtags       |-> HashtagTexts(post.hashtags),
         mentions       |-> MentionsOf(post.user_mentions),
         mediaCount     |-> IF "media" \in DOMAIN post THEN Len(post.media) ELSE 0 ]

\* normalizeXPost of the nested shape
normalizeXPost(post) ==
  LET authorId       == IF "core" \in DOMAIN post THEN post.core.rest_id
                        ELSE "unknown_author"
      authorUsername == IF "core" \in DOMAIN post THEN post.core.screen_name
                        ELSE "unknown_username"
      authorName     == IF "core" \in DOMAIN post THEN post.core.name
                        ELSE authorUsername
  IN  [ id             |-> post.rest_id,
        text           |-> post.full_text,
        authorId       |-> authorId,
        authorUsername |-> authorUsername,
        authorName     |-> authorName,
        createdAt      |-> parseTwitterDate(post.created_at),
        likesCount     |-> NumberOf(post, "favorite_count"),
        repostsCount   |-> NumberOf(post, "retweet_count"),
        repliesCount   |-> OrZero(NumberOf(post, "reply_count")),
        quotesCount    |-> OrZero(NumberOf(post, "quote_count")),
        viewsCount     |-> IF "views" \in DOMAIN post THEN ParseInt(post.views.count)
                           ELSE 0,
        bookmarksCount |-> OrZero(NumberOf(post, "bookmark_count")),
        isRetweet      |-> "retweeted_status_id_str" \in DOMAIN post,
        isQuote        |-> "quoted_status_id_str" \in DOMAIN post,
        isReply        |-> \/ "in_reply_to_status_id_str" \in DOMAIN post
                           \/ "in_reply_to_user_id_str" \in DOMAIN post,
        hashtags       |-> HashtagTexts(post.hashtags),
        mentions       |-> MentionsOf(post.user_mentions),
        mediaCount     |-> IF "media" \in DOMAIN post THEN Len(post.media) ELSE 0 ]

\* the upstream answers with a raw post
ReceiveRawPost(raw) ==
  /\ nzRaw = [ none |-> TRUE ]
  /\ nzRaw' = raw
  /\ UNCHANGED << nzResult, rqPc, rqClock, rqTimer, rqResponse, rqOutcome,
                  orchVars, scanVars, codecVars, scoreVars, callbackVars >>

\* response.data.tweets.map(normalizeXPost)
NormalizeXPost ==
  /\ nzRaw # [ none |-> TRUE ]
  /\ nzResult = [ pending |-> TRUE ]
  /\ nzResult' = IF nzRaw.shape = "flat" THEN normalizeXPostFlat(nzRaw.post)
                 ELSE normalizeXPost(nzRaw.post)
  /\ UNCHANGED << nzRaw, rqPc, rqClock, rqTimer, rqResponse, rqOutcome,
                  orchVars, scanVars, codecVars, scoreVars, callbackVars >>

NextNormalize ==
  \/ \E raw \in RawPosts : ReceiveRawPost(raw)
  \/ NormalizeXPost

SpecNormalize == Init /\ [][NextNormalize]_vars

(***************************************************************************)
(* Properties of normalizeXPost.                                           *)
(***************************************************************************)
Normalized == nzResult # [ pending |-> TRUE ]

\* the count of the normalized post that each raw count field feeds
CountFields ==
  [ flat   |-> << << "likeCount", "likesCount" >>, << "retweetCount", "repostsCount" >>,
                  << "replyCount", "repliesCount" >>, << "quoteCount", "quotesCount" >>,
                  << "viewCount", "viewsCount" >>, << "bookmarkCount", "bookmarksCount" >>,
                  << "media", "mediaCount" >> >>,
    legacy |-> << << "favorite_count", "likesCount" >>, << "retweet_count", "repostsCount" >>,
                  << "reply_count", "repliesCount" >>, << "quote_count", "quotesCount" >>,
                  << "views", "viewsCount" >>, << "bookmark_count", "bookmarksCount" >>,
                  << "media", "mediaCount" >> >> ]

\* the raw post lacks its author information
LacksAuthor == { "author", "core" } \cap DOMAIN nzRaw.post = {}

\* C36: normalize never fails on a raw post that lacks optional fields, in
\* either shape: every absent count (likes, reposts, replies, quotes,
\* views, bookmarks, media) becomes 0, and absent author information
\* becomes the "unknown" sentinel values, never null or undefined.
C36_DefaultsForAbsentFields ==
  Normalized =>
    /\ "threw" \notin DOMAIN nzResult
    /\ \A i \in 1..7 :
         LET pair == CountFields[nzRaw.shape][i]
         IN  pair[1] \notin DOMAIN nzRaw.post => nzResult[pair[2]] = 0
    /\ LacksAuthor => /\ nzResult.authorId = "unknown_author"
                      /\ nzResult.authorUsername = "unknown_username"
                      /\ nzResult.authorName = "unknown_username"

\* the run of a slot ended with the result of the persisting loop
DoneAfterSearch(r) == pc[r] = "done" /\ Len(linkedAccounts[r]) > 0

\* C37: at the end of every run that reached the search, stored + skipped
\* equals the number of posts fetched; every post the loop handles
\* increments exactly one of the two counters by one; and stored is the
\* number of writes of storeXActivity the run performed.
C37_CountersAddUp ==
  /\ [](\A r \in Slots :
          DoneAfterSearch(r) =>
            /\ result[r].posts = Len(allPosts[r])
            /\ result[r].count + result[r].skipped = result[r].posts
            /\ result[r].count = Len(writes[r]))
  /\ [][ \A r \in Slots :
           LoopStep(r) =>
             /\ storedCount'[r] + skippedCount'[r] = storedCount[r] + skippedCount[r] + 1
             /\ storedCount'[r] \in { storedCount[r], storedCount[r] + 1 }
             /\ Len(writes'[r]) - Len(writes[r]) = storedCount'[r] - storedCount[r] ]_vars

\* a run over two posts ended with one stored and one skipped
C37_Witness ==
  \E r \in Slots :
    /\ DoneAfterSearch(r)
    /\ result[r].posts = 2 /\ result[r].count = 1 /\ result[r].skipped = 1
    /\ Len(writes[r]) = 1

\* C38: every record of linked carries as owner the username whose own
\* README was fetched and held the claim of the record, and every call of
\* the verification passes the scanned username together with the
\* platform id, the handle and the proof token of the claim found in the
\* README of that username; no claim is attributed to another username.
C38_ClaimStaysWithItsProfile ==
  /\ \A k \in DOMAIN scLinked :
       LET owner == scLinked[k].githubUsername
       IN  /\ owner \in DOMAIN scReadme
           /\ scReadme[owner].kind = "valid"
           /\ scReadme[owner].claim = Claim(scLinked[k].xUserId, scLinked[k].xUsername)
  /\ \A j \in DOMAIN scTasks :
       /\ Len(scTasks[j].verifyArgs) = scTasks[j].verifies
       /\ \A c \in DOMAIN scTasks[j].verifyArgs :
            LET args   == scTasks[j].verifyArgs[c]
                readme == scReadme[scBatch[j]]
            IN  /\ args.githubUsername = scBatch[j]
                /\ readme.kind \in { "valid", "invalid" }
                /\ args.xUserId = readme.claim.xUserId
                /\ args.xUsername = readme.claim.xUsername
                /\ args.linkingProof = readme.kind

\* two usernames whose READMEs hold different claims: the first is in
\* linked with its own claim, and the claim of the second has just been
\* verified under the second username
C38_Witness ==
  /\ scPc = "batch"
  /\ Len(scLinked) = 1 /\ Len(scBatch) = 1
  /\ scLinked[1].githubUsername = scUsernames[1]
  /\ scBatch[1] = scUsernames[2]
  /\ scTasks[1].verifies = 1
  /\ scTasks[1].verifyArgs[1].githubUsername = scUsernames[2]
  /\ scTasks[1].verifyArgs[1].xUserId # scLinked[1].xUserId

\* the activity lists that hold the rows of xsActivities in another order
Reorderings(activities) ==
  LET n == Len(activities)
      Orders == { p \in [ 1..n -> 1..n ] : \A i \in 1..n : \E j \in 1..n : p[j] = i }
  IN  { [ i \in 1..n |-> activities[p[i]] ] : p \in Orders }

\* C39: calculateXScore returns the same totalScore and the same metrics
\* for every permutation of the same activity list, also when several
\* activities of one day share the same createdAt but differ in type or
\* multipliers
C39_SameForEveryPermutation ==
  Scored =>
    \A permuted \in Reorderings(xsActivities) :
      LET again == calculateXScore(permuted, xsConfig)
      IN  /\ again.totalScore = xsResult.totalScore
          /\ again.metrics = xsResult.metrics

(***************************************************************************)
(* The linking callback page (XCallbackContent, handleCallback).  Every    *)
(* await of handleCallback is one step; the code between two awaits runs   *)
(* with the step that resumes it.                                          *)
(***************************************************************************)
\* btoa of the encoded text and decodeBase64 of a content
Btoa(text) == [ base64 |-> text ]
decodeBase64(content) == content.base64

\* what a fetch settles with
Resolved(ok, json) == [ rejected |-> FALSE, ok |-> ok, json |-> json ]
\* a body response.json() rejects on
BodyNotJson == [ syntaxError |-> TRUE ]
AnyJson == [ object |-> TRUE ]

\* the query of the page: an error of X, a parameter missing, code and state
SearchParams == { "error", "missing", "complete" }

ExchangeOutcomes ==
  { Rejected, Resolved(FALSE, AnyJson), Resolved(FALSE, BodyNotJson), Resolved(TRUE, BodyNotJson) }
  \cup { Resolved(TRUE, xAccount) : xAccount \in XAccounts }

RepoOutcomes ==
  { Rejected, Resolved(FALSE, BodyNotJson), Resolved(TRUE, BodyNotJson), Resolved(TRUE, AnyJson) }

ReadmeOutcomes ==
  { Rejected, Resolved(FALSE, AnyJson), Resolved(TRUE, BodyNotJson) }
  \cup { Resolved(TRUE, [ content |-> Btoa(text), sha |-> "sha" ]) :
           text \in Texts(MaxParts) }

CommitOutcomes ==
  { Rejected, Resolved(FALSE, AnyJson), Resolved(FALSE, BodyNotJson), Resolved(TRUE, AnyJson) }

\* variant: a claim found in the README does not end the flow
AlreadyLinkedNever(existingXData) == FALSE

\* if (existingXData)
AlreadyLinked(existingXData) == existingXData # NullData

\* setStatus(status) followed by the return or the end of the try block,
\* and the finally block
Ends(status) ==
  /\ cbStatus' = Append(cbStatus, status)
  /\ cbWriting' = FALSE
  /\ cbPc' = "done"

\* the effect of the page
Mount(searchParams) ==
  /\ cbPc = "idle"
  /\ IF searchParams = "complete"
     THEN cbPc' = "exchange" /\ UNCHANGED cbStatus
     ELSE cbPc' = "done" /\ cbStatus' = Append(cbStatus, "error")
  /\ UNCHANGED << cbWriting, cbAccount, cbReadme, cbPuts, cbRedirect,
                  orchVars, scanVars, codecVars, scoreVars, clientVars >>

\* step 1: the auth worker has answered
ExchangeSettles(outcome, token) ==
  /\ cbPc = "exchange"
  /\ IF outcome = Rejected \/ ~outcome.ok \/ outcome.json = BodyNotJson
     THEN Ends("error") /\ UNCHANGED cbAccount
     ELSE /\ cbAccount' = outcome.json
          /\ IF ~token THEN Ends("error")
             ELSE cbPc' = "repo" /\ UNCHANGED << cbStatus, cbWriting >>
  /\ UNCHANGED << cbReadme, cbPuts, cbRedirect,
                  orchVars, scanVars, codecVars, scoreVars, clientVars >>

\* step 2: GitHub has answered the request for the profile repository
RepoSettles(outcome) ==
  /\ cbPc = "repo"
  /\ IF outcome = Rejected \/ ~outcome.ok \/ outcome.json = BodyNotJson
     THEN Ends("error")
     ELSE cbPc' = "readme" /\ UNCHANGED << cbStatus, cbWriting >>
  /\ UNCHANGED << cbAccount, cbReadme, cbPuts, cbRedirect,
                  orchVars, scanVars, codecVars, scoreVars, clientVars >>

\* steps 4 and 5 up to the await of the PUT
WriteReadme(currentReadme, readmeSha) ==
  LET out == generateUpdatedReadmeWithXInfo(currentReadme, cbAccount, IsoTimes[1])
  IN  /\ cbReadme' = currentReadme
      /\ IF out = ZodError
         THEN Ends("error") /\ UNCHANGED cbPuts
         ELSE /\ cbWriting' = TRUE
              /\ cbPuts' = Append(cbPuts, [ content |-> Btoa(out.updatedReadme),
                                            sha     |-> readmeSha ])
              /\ cbPc' = "commit"
              /\ UNCHANGED cbStatus

\* step 3: GitHub has answered the request for README.md
ReadmeSettles(outcome) ==
  /\ cbPc = "readme"
  /\ IF outcome = Rejected
     THEN Ends("error") /\ UNCHANGED << cbReadme, cbPuts >>
     ELSE IF ~outcome.ok THEN WriteReadme(<<>>, Undefined)
     ELSE IF outcome.json = BodyNotJson
     THEN Ends("error") /\ UNCHANGED << cbReadme, cbPuts >>
     ELSE LET currentReadme == decodeBase64(outcome.json.content)
              existingXData == parseXLinkingDataFromReadme(currentReadme)
          IN  IF AlreadyLinked(existingXData)
              THEN /\ cbReadme' = currentReadme
                   /\ Ends("already_linked")
                   /\ UNCHANGED cbPuts
              ELSE WriteReadme(currentReadme, outcome.json.sha)
  /\ UNCHANGED << cbAccount, cbRedirect,
                  orchVars, scanVars, codecVars, scoreVars, clientVars >>

\* GitHub has answered the PUT
CommitSettles(outcome) ==
  /\ cbPc = "commit"
  /\ IF outcome = Rejected \/ ~outcome.ok
     THEN Ends("error") /\ UNCHANGED cbRedirect
     ELSE Ends("success") /\ cbRedirect' = "armed"
  /\ UNCHANGED << cbAccount, cbReadme, cbPuts,
                  orchVars, scanVars, codecVars, scoreVars, clientVars >>

\* the timer set after the success fires and the router moves on
Redirect ==
  /\ cbRedirect = "armed"
  /\ cbRedirect' = "fired"
  /\ UNCHANGED << cbPc, cbStatus, cbWriting, cbAccount, cbReadme, cbPuts,
                  orchVars, scanVars, codecVars, scoreVars, clientVars >>

NextCallback ==
  \/ \E searchParams \in SearchParams : Mount(searchParams)
  \/ \E outcome \in ExchangeOutcomes, token \in BOOLEAN : ExchangeSettles(outcome, token)
  \/ \E outcome \in RepoOutcomes : RepoSettles(outcome)
  \/ \E outcome \in ReadmeOutcomes : ReadmeSettles(outcome)
  \/ \E outcome \in CommitOutcomes : CommitSettles(outcome)
  \/ Redirect

SpecCallback == Init /\ [][NextCallback]_vars

\* handleCallback has returned, or the effect has ended without calling it
CallbackDone == cbPc = "done"
\* the README fetched holds a claim that parseXLinkingDataFromReadme reads
FoundClaim == parseXLinkingDataFromReadme(cbReadme) # NullData

\* C40: when the fetched README already holds a valid linking claim the
\* flow ends in status already_linked and no PUT of the README is sent; a
\* PUT is sent only where no valid claim was found; every path ends in
\* exactly one of success, error and already_linked with the writing flag
\* cleared
C40_AlreadyLinkedWritesNothing ==
  /\ FoundClaim => /\ CallbackDone
                   /\ cbStatus = << "already_linked" >>
                   /\ cbPuts = <<>>
  /\ cbPuts # <<>> => ~FoundClaim
  /\ CallbackDone => /\ Len(cbStatus) = 1
                     /\ cbStatus[1] \in { "success", "error", "already_linked" }
                     /\ ~cbWriting
  /\ ~CallbackDone => cbStatus = <<>>

\* a README with a claim was fetched and the flow has ended already_linked
C40_Witness ==
  /\ CallbackDone
  /\ FoundClaim
  /\ cbStatus = << "already_linked" >>
  /\ cbPuts = <<>>
  /\ ~cbWriting

=============================================================================
